---- MODULE Spec2Model ----
(***************************************************************************)
(* The availability record pipeline of automation_wyndham: the Parser      *)
(* (_parse_response / parse_network_response), the Ledger                  *)
(* (unique_combinations), the Sink (append and regenerate of the CSV       *)
(* file under one lock) and the adapters that drive them (the file         *)
(* watcher, the realtime scanner, the batch converter).                    *)
(*                                                                         *)
(* Strings are sequences of character codes, so that Python's substring    *)
(* test and its string ordering are computed, not assumed.                 *)
(***************************************************************************)
EXTENDS Integers, Sequences, FiniteSets, TLC

VARIABLES
    \* ---- shared Ledger / Sink (one handler object) ----
    unique_combinations,  \* dict key -> row, kept as the rows in insertion order
    csvFile,              \* the output file: a sequence of text rows (5-tuples)
    lock,                 \* holder of self.lock / CSV_LOCK, or NoThread
    \* ---- per thread call frame ----
    pc,                   \* thread -> position in the code
    new_rows,             \* thread -> the rows handed to the append
    idx,                  \* thread -> index of the `for row in new_rows` loop
    unique_new_rows,      \* thread -> rows this batch inserted as new
    key_is_new,           \* thread -> result of `key not in unique_combinations`
    ret,                  \* thread -> where the thread goes on after the call returns
    cur_input,            \* thread -> the payload / file the thread is handling
    batches,              \* thread -> number of payloads the thread has ingested
    \* ---- file watcher ----
    dirFiles,             \* files present in the watch directory
    events,               \* filesystem events queued for the notification thread
    processed_files,      \* self.processed_files
    existing,             \* sorted(existing_files) still to process at startup
    stop_requested,       \* observer.stop() was called
    \* ---- realtime scanner ----
    month_idx,            \* main()'s loop variable
    captures,             \* availability responses captured so far in the scan
    \* ---- parser / pure-function harness ----
    payload,              \* the raw payload handed to the Parser
    data_rows,            \* what the Parser returned
    arrival,              \* two arrival orders of the same payloads
    snapshots,            \* the sorted snapshot of each pipeline instance
    phase,                \* position of the harness
    \* ---- history (not program state) ----
    offered,              \* the rows in the order their `key not in` test ran
    ingested,             \* the payloads whose ingestion has returned
    \* ---- the filesystem under the Sink ----
    disk_ok,              \* the output path can be opened for writing
    cwd_ok,               \* the working directory can be written
    fallbackFile,         \* the file of the same name in the working directory
    fallback_tries,       \* history: writes attempted on the working-directory path
    write_errors,         \* history: the writes of the output file that raised
    \* ---- run_watcher's clock ----
    now,                  \* time.time(), in whole seconds
    last_regenerate,      \* run_watcher's last_regenerate
    regenerate_interval,  \* the --regenerate-interval option
    periodic_starts,      \* history: the times at which the loop began a regenerate
    \* ---- NetworkCaptureWithCSV.get_availability_response ----
    logs,                 \* driver.get_log('performance')
    response_bodies,      \* requestId -> what Network.getResponseBody gives for it
    log_pos,              \* position of `for log in logs`
    availability_data,    \* the local availability_data
    latest_timestamp,     \* the local latest_timestamp
    result                \* what the call returned

vars == <<unique_combinations, csvFile, lock, pc, new_rows, idx, unique_new_rows,
          key_is_new, ret, cur_input, batches, dirFiles, events, processed_files,
          existing, stop_requested, month_idx, captures, payload, data_rows, arrival,
          snapshots, phase, offered, ingested,
          disk_ok, cwd_ok, fallbackFile, fallback_tries, write_errors,
          now, last_regenerate, regenerate_interval, periodic_starts,
          logs, response_bodies, log_pos, availability_data, latest_timestamp, result>>

ledgerVars  == <<unique_combinations, csvFile, lock>>
frameVars   == <<new_rows, idx, unique_new_rows, key_is_new, ret, cur_input>>
watchVars   == <<dirFiles, events, processed_files, existing, stop_requested>>
scanVars    == <<month_idx, captures>>
harnessVars == <<payload, data_rows, arrival, snapshots, phase>>
histVars    == <<offered, ingested>>
faultVars   == <<disk_ok, cwd_ok, fallbackFile, fallback_tries, write_errors>>
clockVars   == <<now, last_regenerate, regenerate_interval, periodic_starts>>
captureVars == <<logs, response_bodies, log_pos, availability_data, latest_timestamp, result>>

-----------------------------------------------------------------------------
(* Strings                                                                 *)

\* "Presidential Reserve"
PresidentialReserve == <<80, 114, 101, 115, 105, 100, 101, 110, 116, 105, 97, 108,
                         32, 82, 101, 115, 101, 114, 118, 101>>
\* " Presidential Reserve" (the f-string of the offering id)
IdSuffix == <<32>> \o PresidentialReserve
\* " (Presidential Reserve)" (the f-string of the inventory label)
LabelSuffix == <<32, 40>> \o PresidentialReserve \o <<41>>

\* Python's `sub in s` on strings
Contains(s, sub) ==
    \E i \in 0..(Len(s) - Len(sub)) : SubSeq(s, i + 1, i + Len(sub)) = sub

\* Python's s < t on strings: code point order, a proper prefix is smaller
RECURSIVE StrLess(_, _)
StrLess(s, t) ==
    IF t = <<>> THEN FALSE
    ELSE IF s = <<>> THEN TRUE
    ELSE IF Head(s) # Head(t) THEN Head(s) < Head(t)
    ELSE StrLess(Tail(s), Tail(t))

\* the characters int() strips and reads
chSpace == <<32>>
chMinus == <<45>>
chPlus == <<43>>
IsDigit(c) == c >= 48 /\ c <= 57

RECURSIVE LStrip(_)
LStrip(s) == IF s # <<>> /\ Head(s) = 32 THEN LStrip(Tail(s)) ELSE s
RECURSIVE RStrip(_)
RStrip(s) == IF s # <<>> /\ s[Len(s)] = 32 THEN RStrip(SubSeq(s, 1, Len(s) - 1)) ELSE s

RECURSIVE DigitsValue(_)
DigitsValue(s) == IF s = <<>> THEN 0 ELSE DigitsValue(SubSeq(s, 1, Len(s) - 1)) * 10 + (s[Len(s)] - 48)

AllDigits(s) == s # <<>> /\ \A i \in 1..Len(s) : IsDigit(s[i])

\* str(n) of a non-negative integer, then of any integer
RECURSIVE NatToStr(_)
NatToStr(n) == IF n < 10 THEN <<48 + n>> ELSE NatToStr(n \div 10) \o <<48 + (n % 10)>>
IntToStr(n) == IF n < 0 THEN chMinus \o NatToStr(0 - n) ELSE NatToStr(n)

-----------------------------------------------------------------------------
(* JSON values of the payload                                              *)

JStr(s) == [typ |-> "str", s |-> s, n |-> 0]
JInt(n) == [typ |-> "int", s |-> <<>>, n |-> n]
JNull == [typ |-> "null", s |-> <<>>, n |-> 0]
JAbsent == [typ |-> "absent", s |-> <<>>, n |-> 0]

\* dict.get(key, default): the default only when the key is missing
Get(v, default) == IF v.typ = "absent" THEN default ELSE v

\* Python's int(x). ok = FALSE is the ValueError / TypeError it raises.
IntOf(v) ==
    IF v.typ = "int" THEN [ok |-> TRUE, v |-> v.n]
    ELSE IF v.typ # "str" THEN [ok |-> FALSE, v |-> 0]
    ELSE LET t == RStrip(LStrip(v.s))
             signed == t # <<>> /\ (Head(t) = 45 \/ Head(t) = 43)
             digits == IF signed THEN Tail(t) ELSE t
         IN  IF ~AllDigits(digits) THEN [ok |-> FALSE, v |-> 0]
             ELSE [ok |-> TRUE,
                   v |-> IF signed /\ Head(t) = 45 THEN 0 - DigitsValue(digits)
                         ELSE DigitsValue(digits)]

\* what csv.DictWriter writes for a cell: str(value)
CellText(v) == IF v.typ = "int" THEN IntToStr(v.n) ELSE v.s

\* `not x.get(flag, False)` over the flag values true / false / key missing
Truthy(flag) == flag = "true"

-----------------------------------------------------------------------------
(* Parser: _parse_response / parse_network_response                        *)

Flatten(ss) ==
    LET RECURSIVE F(_)
        F(k) == IF k > Len(ss) THEN <<>> ELSE ss[k] \o F(k + 1)
    IN  F(1)

\* (mutant) the suffix added to every offering id under a marked label
DisplayOfferingId_AlwaysSuffix(offering_id, offering_label) ==
    IF Contains(offering_label, PresidentialReserve)
    THEN offering_id \o IdSuffix
    ELSE offering_id

\* The offering id shown for an offering
DisplayOfferingId(offering_id, offering_label) ==
    IF Contains(offering_label, PresidentialReserve)
    THEN IF ~Contains(offering_id, PresidentialReserve)
         THEN offering_id \o IdSuffix
         ELSE offering_id
    ELSE offering_id

\* (mutant) the inventory label marked the way the offering id is
DisplayInventoryLabel_IdSuffix(inventory_label, offering_label) ==
    IF Contains(offering_label, PresidentialReserve)
       /\ ~Contains(inventory_label, PresidentialReserve)
    THEN inventory_label \o IdSuffix
    ELSE inventory_label

\* The inventory label shown for an inventory entry
DisplayInventoryLabel(inventory_label, offering_label) ==
    IF Contains(offering_label, PresidentialReserve)
       /\ ~Contains(inventory_label, PresidentialReserve)
    THEN inventory_label \o LabelSuffix
    ELSE inventory_label

\* `if not resort.get('hasAvailableUnits', False): continue`
ResortContributes(resort) == Truthy(resort.hasAvailableUnits)

\* `if not day.get('available', False): continue`
DayContributes(day) == Truthy(day.available)

\* `if int(available_count) > 0`
HasAvailability(count) == count > 0

\* The inventory entries the nested loops reach, in traversal order, each with
\* the loop variables in scope when it is reached.
InventoryVisits(data) ==
    Flatten([r \in 1..Len(data.resorts) |->
      LET resort == data.resorts[r] IN
      IF ~ResortContributes(resort) THEN <<>> ELSE
      Flatten([o \in 1..Len(resort.resortOfferings) |->
        LET offering == resort.resortOfferings[o] IN
        Flatten([a \in 1..Len(offering.accomdationClasses) |->
          LET accommodation == offering.accomdationClasses[a] IN
          Flatten([d \in 1..Len(accommodation.calendarDays) |->
            LET day == accommodation.calendarDays[d] IN
            IF ~DayContributes(day) THEN <<>> ELSE
            [i \in 1..Len(day.inventoryOfferings) |->
               [offering_id |-> offering.offeringId,
                offering_label |-> offering.offeringLabel,
                date |-> day.date,
                inventory |-> day.inventoryOfferings[i],
                at |-> <<r, o, a, d, i>>]]])])])])

\* The row built for one visited inventory entry
RowOf(visit) ==
    [date |-> visit.date,
     offeringId |-> DisplayOfferingId(visit.offering_id, visit.offering_label),
     inventoryOfferingHashKey |-> visit.inventory.inventoryOfferingHashKey,
     invenOffrngLabel |-> DisplayInventoryLabel(visit.inventory.invenOffrngLabel,
                                                visit.offering_label),
     availableCount |-> Get(visit.inventory.availableCount, JStr(<<48>>))]

\* The body of the innermost loop over the visits from position k on. int()
\* raising leaves the loops through the one `except Exception` around them all:
\* the function returns the rows appended so far.
RECURSIVE ParseFrom(_, _)
ParseFrom(visits, k) ==
    IF k > Len(visits) THEN <<>>
    ELSE LET available_count == Get(visits[k].inventory.availableCount, JStr(<<48>>))
             parsed == IntOf(available_count)
         IN  IF ~parsed.ok THEN <<>>
             ELSE (IF HasAvailability(parsed.v) THEN <<RowOf(visits[k])>> ELSE <<>>)
                  \o ParseFrom(visits, k + 1)

\* `if not data or 'resorts' not in data or not data['resorts']: return []`
_parse_response(data) ==
    IF DOMAIN data = {} \/ "resorts" \notin DOMAIN data \/ data.resorts = <<>>
    THEN <<>>
    ELSE ParseFrom(InventoryVisits(data), 1)

-----------------------------------------------------------------------------
(* Ledger: unique_combinations, a dict in insertion order                  *)

\* (mutant) the sort key taken as the dedup key: the hash key left out
KeyOf_NoHashKey(row) == <<row.date, row.offeringId, row.invenOffrngLabel>>

\* key = (row['date'], row['offeringId'], row['inventoryOfferingHashKey'],
\*        row['invenOffrngLabel'])
KeyOf(row) ==
    <<row.date, row.offeringId, row.inventoryOfferingHashKey, row.invenOffrngLabel>>

\* (mutant) only the key stored last is remembered
KeyIn_LastOnly(key, ledger) == ledger # <<>> /\ KeyOf(ledger[Len(ledger)]) = key

\* `key in self.unique_combinations`
KeyIn(key, ledger) == \E k \in 1..Len(ledger) : KeyOf(ledger[k]) = key

\* `self.unique_combinations[key] = row`: a new key goes last, a key already
\* there keeps its place and takes the new value
Store(ledger, key, row) ==
    IF KeyIn(key, ledger)
    THEN [k \in 1..Len(ledger) |-> IF KeyOf(ledger[k]) = key THEN row ELSE ledger[k]]
    ELSE Append(ledger, row)

\* the loop `for row in new_rows: if key not in ...: ...[key] = row` run to its
\* end by one caller alone: <<ledger, unique_new_rows>>
RECURSIVE InsertAll(_, _)
InsertAll(ledger, rows) ==
    IF rows = <<>> THEN <<ledger, <<>>>>
    ELSE LET row == Head(rows)
             fresh == ~KeyIn(KeyOf(row), ledger)
             rest == InsertAll(IF fresh THEN Store(ledger, KeyOf(row), row) ELSE ledger,
                               Tail(rows))
         IN  <<rest[1], (IF fresh THEN <<row>> ELSE <<>>) \o rest[2]>>

-----------------------------------------------------------------------------
(* Sink: the CSV file as a sequence of text rows                           *)

fieldnames ==
    <<<<100, 97, 116, 101>>,                                        \* date
      <<111, 102, 102, 101, 114, 105, 110, 103, 73, 100>>,          \* offeringId
      <<105, 110, 118, 101, 110, 116, 111, 114, 121, 79, 102, 102,
        101, 114, 105, 110, 103, 72, 97, 115, 104, 75, 101, 121>>,  \* inventoryOfferingHashKey
      <<105, 110, 118, 101, 110, 79, 102, 102, 114, 110, 103, 76,
        97, 98, 101, 108>>,                                         \* invenOffrngLabel
      <<97, 118, 97, 105, 108, 97, 98, 108, 101, 67, 111, 117, 110, 116>>>>  \* availableCount

\* writer.writeheader()
HeaderRow == fieldnames

\* writer.writerow(row): the cells in fieldnames order, each as text
WriteRow(row) ==
    <<row.date, row.offeringId, row.inventoryOfferingHashKey, row.invenOffrngLabel,
      CellText(row.availableCount)>>

WriteRows(rows) == [k \in 1..Len(rows) |-> WriteRow(rows[k])]

\* key=lambda x: (x['date'], x['offeringId'], x['invenOffrngLabel'])
SortKey(row) == <<row.date, row.offeringId, row.invenOffrngLabel>>

\* Python's a < b on tuples of strings of one length
TupleLess(a, b) ==
    \E j \in 1..Len(a) :
        /\ \A i \in 1..(j - 1) : a[i] = b[i]
        /\ StrLess(a[j], b[j])

\* sorted(rows, key=...): stable, rows of equal key keep their order
RECURSIVE SortedRows(_)
SortedRows(rows) ==
    IF rows = <<>> THEN <<>>
    ELSE LET front == SortedRows(SubSeq(rows, 1, Len(rows) - 1))
             x == rows[Len(rows)]
             \* x goes behind every row whose key is not greater than its own
             n == Cardinality({k \in 1..Len(front) :
                                 ~TupleLess(SortKey(x), SortKey(front[k]))})
         IN  SubSeq(front, 1, n) \o <<x>> \o SubSeq(front, n + 1, Len(front))

\* (mutant) a sort that puts a row before the rows of equal key seen earlier
RECURSIVE SortedRows_TiesReversed(_)
SortedRows_TiesReversed(rows) ==
    IF rows = <<>> THEN <<>>
    ELSE LET front == SortedRows_TiesReversed(SubSeq(rows, 1, Len(rows) - 1))
             x == rows[Len(rows)]
             n == Cardinality({k \in 1..Len(front) :
                                 TupleLess(SortKey(front[k]), SortKey(x))})
         IN  SubSeq(front, 1, n) \o <<x>> \o SubSeq(front, n + 1, Len(front))
sorted_data_TiesReversed(ledger) == SortedRows_TiesReversed(ledger)

\* (mutant) the rows written in arrival order, the sort left out
sorted_data_NoSort(ledger) == ledger

\* sorted(self.unique_combinations.values(), key=...)
sorted_data(ledger) == SortedRows(ledger)

\* what regenerate_sorted_csv leaves in the file
RegeneratedFile(ledger) == <<HeaderRow>> \o WriteRows(sorted_data(ledger))

-----------------------------------------------------------------------------
(* Payloads handed to the Parser                                           *)

\* The payloads hold at most MaxEntries inventory entries in all, spread over
\* resorts and calendar days in every way.
MaxEntries == 2

Flags == {"true", "false", "absent"}

\* availableCount: "2", "0", "-1", "x" (not a number), the number 3
CountChoices == {JStr(<<50>>), JStr(<<48>>), JStr(<<45, 49>>), JStr(<<120>>), JInt(3)}

sA1 == <<65, 49>>          \* offeringId "A1"
sSuite == <<83, 117, 105, 116, 101>>   \* offeringLabel "Suite"
sKing == <<75, 105, 110, 103>>         \* invenOffrngLabel "King"
DateAt(d) == <<68, 48 + d>>            \* the date of the d-th calendar day, "D1", "D2", ...
HashAt(r, d, i) == <<72, 48 + r, 48 + d, 48 + i>>   \* an opaque key, one per entry

\* One inventory entry of a payload under construction: its availableCount and
\* where it sits: in the day of the entry before it, first of a new day (with
\* that day's flag), or first of a new resort (with the resort's and day's flags).
Placements ==
    {[start |-> "entry", hasAvailableUnits |-> "true", available |-> "true"]}
    \cup {[start |-> "day", hasAvailableUnits |-> "true", available |-> f] : f \in Flags}
    \cup {[start |-> "resort", hasAvailableUnits |-> f, available |-> g] : f \in Flags, g \in Flags}

Leaves == {[count |-> c, at |-> p] : c \in CountChoices, p \in Placements}

Indices(n) == [k \in 1..n |-> k]

\* the positions in from..to where a leaf opens a new group of the kinds given
StartsIn(leaves, from, to, kinds) ==
    SelectSeq(Indices(Len(leaves)),
              LAMBDA k : k >= from /\ k <= to /\ (k = from \/ leaves[k].at.start \in kinds))

\* the last position of the group that opens at starts[j]
GroupEnd(starts, j, to) == IF j < Len(starts) THEN starts[j + 1] - 1 ELSE to

DayOf(leaves, r, d, from, to) ==
    [available |-> leaves[from].at.available,
     date |-> DateAt(d),
     inventoryOfferings |->
        [i \in 1..(to - from + 1) |->
            [availableCount |-> leaves[from + i - 1].count,
             inventoryOfferingHashKey |-> HashAt(r, d, i),
             invenOffrngLabel |-> sKing]]]

ResortOf(leaves, r, from, to) ==
    LET days == StartsIn(leaves, from, to, {"day"}) IN
    [hasAvailableUnits |-> leaves[from].at.hasAvailableUnits,
     resortOfferings |->
        <<[offeringId |-> sA1, offeringLabel |-> sSuite,
           accomdationClasses |->
              <<[calendarDays |->
                    [d \in 1..Len(days) |->
                        DayOf(leaves, r, d, days[d], GroupEnd(days, d, to))]]>>]>>]

\* the payload whose inventory entries are the leaves, in traversal order
PayloadOf(leaves) ==
    LET resorts == StartsIn(leaves, 1, Len(leaves), {"resort"}) IN
    [resorts |-> [r \in 1..Len(resorts) |->
                     ResortOf(leaves, r, resorts[r], GroupEnd(resorts, r, Len(leaves)))]]

\* the leaf sequences that describe a payload: the first entry opens a resort
LeafSeqs(n) == {ls \in [1..n -> Leaves] : n > 0 => ls[1].at.start = "resort"}

-----------------------------------------------------------------------------
(* Payloads fed to the pipelines                                           *)

sD1 == <<68, 49>>     \* date "D1"
sD2 == <<68, 50>>     \* date "D2"
sH1 == <<72, 49>>     \* inventoryOfferingHashKey "H1"
sH2 == <<72, 50>>     \* inventoryOfferingHashKey "H2"
sTwo == <<50>>        \* availableCount "2"
sFive == <<53>>       \* availableCount "5"

EntryOf(hash, count) ==
    [availableCount |-> JStr(count), inventoryOfferingHashKey |-> hash,
     invenOffrngLabel |-> sKing]
DayWith(date, entries) ==
    [available |-> "true", date |-> date, inventoryOfferings |-> entries]
OneResort(days) ==
    [resorts |-> <<[hasAvailableUnits |-> "true",
                    resortOfferings |-> <<[offeringId |-> sA1, offeringLabel |-> sSuite,
                                           accomdationClasses |-> <<[calendarDays |-> days]>>]>>]>>]

SamplePayloads ==
    <<  \* 1: one record, of the later date
        OneResort(<<DayWith(sD2, <<EntryOf(sH1, sTwo)>>)>>),
        \* 2: the record of 4, and the identity key of 1 with another count
        OneResort(<<DayWith(sD1, <<EntryOf(sH1, sTwo)>>), DayWith(sD2, <<EntryOf(sH1, sFive)>>)>>),
        \* 3: equal to the record of 4 on (date, offeringId, label), another hash key
        OneResort(<<DayWith(sD1, <<EntryOf(sH2, sTwo)>>)>>),
        \* 4: one record, of the earlier date
        OneResort(<<DayWith(sD1, <<EntryOf(sH1, sTwo)>>)>>),
        \* 5: no resort data, no record
        [resorts |-> <<>>] >>

PayloadIds == 1..Len(SamplePayloads)

\* what the Parser makes of sample payload p
ParsedSample(p) == _parse_response(SamplePayloads[p])

-----------------------------------------------------------------------------
(* Values of the variables a specification does not use                    *)

NoThread == "none"
Threads == {"main", "observer", "p1", "p2", "scanner"}

IdleLedger == unique_combinations = <<>> /\ csvFile = <<>> /\ lock = NoThread
IdleThreads ==
    /\ pc = [t \in Threads |-> "off"]
    /\ new_rows = [t \in Threads |-> <<>>]
    /\ idx = [t \in Threads |-> 0]
    /\ unique_new_rows = [t \in Threads |-> <<>>]
    /\ key_is_new = [t \in Threads |-> FALSE]
    /\ ret = [t \in Threads |-> "off"]
    /\ cur_input = [t \in Threads |-> 0]
    /\ batches = [t \in Threads |-> 0]
IdleWatcher ==
    /\ dirFiles = {} /\ events = <<>> /\ processed_files = {}
    /\ existing = <<>> /\ stop_requested = FALSE
IdleScanner == month_idx = 0 /\ captures = 0
IdleHistory == offered = <<>> /\ ingested = {}
\* every path writable, nothing in the working directory, no write has raised
\* the clock is not read
IdleClock ==
    /\ now = 0 /\ last_regenerate = 0 /\ regenerate_interval = 0
    /\ periodic_starts = <<>>
\* get_availability_response is not called
IdleCapture ==
    /\ logs = <<>> /\ response_bodies = <<>> /\ log_pos = 0 /\ latest_timestamp = 0
    /\ availability_data = "off" /\ result = "off"
IdleFaults ==
    /\ disk_ok = TRUE /\ cwd_ok = TRUE
    /\ fallbackFile = <<>> /\ fallback_tries = 0 /\ write_errors = {}
IdleHarness ==
    /\ payload = [resorts |-> <<>>] /\ data_rows = <<>>
    /\ arrival = <<>> /\ snapshots = <<>> /\ phase = "off"

-----------------------------------------------------------------------------
(* SpecParser: the Parser applied to every payload                         *)

InitParser ==
    /\ IdleLedger /\ IdleThreads /\ IdleWatcher /\ IdleScanner /\ IdleHistory /\ IdleFaults /\ IdleClock /\ IdleCapture
    /\ \E n \in 0..MaxEntries : \E ls \in LeafSeqs(n) : payload = PayloadOf(ls)
    /\ data_rows = <<>>
    /\ arrival = <<>> /\ snapshots = <<>>
    /\ phase = "input"

Parse ==
    /\ phase = "input"
    /\ data_rows' = _parse_response(payload)
    /\ phase' = "parsed"
    /\ UNCHANGED <<ledgerVars, pc, frameVars, batches, clockVars, captureVars, watchVars, scanVars, histVars, faultVars,
                   payload, arrival, snapshots>>

NextParser == Parse

SpecParser == InitParser /\ [][NextParser]_vars

\* ---- what the payload holds, read off the tree itself ----

DaysAt(data, r) == data.resorts[r].resortOfferings[1].accomdationClasses[1].calendarDays

\* the positions <<resort, day, entry>> of the payload's inventory entries
Positions(data) ==
    {p \in (1..MaxEntries) \X (1..MaxEntries) \X (1..MaxEntries) :
        /\ p[1] <= Len(data.resorts)
        /\ p[2] <= Len(DaysAt(data, p[1]))
        /\ p[3] <= Len(DaysAt(data, p[1])[p[2]].inventoryOfferings)}

EntryAt(data, p) == DaysAt(data, p[1])[p[2]].inventoryOfferings[p[3]]

\* the entry's availableCount does not parse as an integer
Malformed(data, p) == ~IntOf(Get(EntryAt(data, p).availableCount, JStr(<<48>>))).ok

\* the entry sits under a truthy resort and a truthy day and its count parses to > 0
PassesFilters(data, p) ==
    /\ data.resorts[p[1]].hasAvailableUnits = "true"
    /\ DaysAt(data, p[1])[p[2]].available = "true"
    /\ IntOf(Get(EntryAt(data, p).availableCount, JStr(<<48>>))).ok
    /\ IntOf(Get(EntryAt(data, p).availableCount, JStr(<<48>>))).v > 0

\* how many of the returned rows come from the entry (its hash key is its own)
RowsFrom(p) ==
    Cardinality({k \in 1..Len(data_rows) :
                    data_rows[k].inventoryOfferingHashKey = HashAt(p[1], p[2], p[3])})

\* C9: when one inventory entry's availableCount cannot be parsed as an integer,
\* only that entry is skipped: every other entry of the payload that passes the
\* filters is still emitted, also the entries after the malformed one.
C9_OnlyMalformedEntrySkipped ==
    phase = "parsed" =>
        \A m \in Positions(payload) :
            Malformed(payload, m) =>
                \A p \in Positions(payload) \ {m} :
                    PassesFilters(payload, p) => RowsFrom(p) = 1

\* C10: no record comes from a resort whose hasAvailableUnits is falsy or missing,
\* from a day whose available flag is falsy or missing, or from an entry whose
\* count parses to 0 or less; every entry under a truthy resort and a truthy day
\* with parsed count > 0 yields exactly one record.
C10_FiltersDecideEmission ==
    phase = "parsed" =>
        \A p \in Positions(payload) :
            RowsFrom(p) = (IF PassesFilters(payload, p) THEN 1 ELSE 0)

-----------------------------------------------------------------------------
(* SpecOrder: independent pipeline instances fed one set of payloads in    *)
(* two arrival orders, each read through regenerate_sorted_csv             *)

\* update_csv_realtime of each payload in turn, on one thread
RECURSIVE IngestAll(_, _)
IngestAll(ledger, order) ==
    IF order = <<>> THEN ledger
    ELSE IngestAll(InsertAll(ledger, ParsedSample(Head(order)))[1], Tail(order))

\* a fresh instance: the payloads in the order given, then regenerate
InstanceRun(order) == RegeneratedFile(IngestAll(<<>>, order))

Orders(S) == {f \in [1..Cardinality(S) -> S] : \A i, j \in DOMAIN f : f[i] = f[j] => i = j}

InitOrder ==
    /\ IdleLedger /\ IdleThreads /\ IdleWatcher /\ IdleScanner /\ IdleHistory /\ IdleFaults /\ IdleClock /\ IdleCapture
    /\ payload = [resorts |-> <<>>] /\ data_rows = <<>>
    /\ \E S \in (SUBSET PayloadIds) \ {{}} :
          \E a \in Orders(S), b \in Orders(S) : arrival = <<a, b>>
    /\ snapshots = <<>>
    /\ phase = "input"

RunInstances ==
    /\ phase = "input"
    /\ snapshots' = [i \in 1..2 |-> InstanceRun(arrival[i])]
    /\ phase' = "ran"
    /\ UNCHANGED <<ledgerVars, pc, frameVars, batches, clockVars, captureVars, watchVars, scanVars, histVars, faultVars,
                   payload, data_rows, arrival>>

NextOrder == RunInstances

SpecOrder == InitOrder /\ [][NextOrder]_vars

\* ---- the records the instances were fed ----
FedRows ==
    UNION {{ParsedSample(arrival[1][k])[i] : i \in 1..Len(ParsedSample(arrival[1][k]))} :
           k \in 1..Len(arrival[1])}

\* two payloads carry one identity key with different availableCount
CountConflict ==
    \E r1, r2 \in FedRows :
        /\ <<r1.date, r1.offeringId, r1.inventoryOfferingHashKey, r1.invenOffrngLabel>>
           = <<r2.date, r2.offeringId, r2.inventoryOfferingHashKey, r2.invenOffrngLabel>>
        /\ r1.availableCount # r2.availableCount

\* two records agree on (date, offeringId, invenOffrngLabel), not on the hash key
HashKeyTie ==
    \E r1, r2 \in FedRows :
        /\ <<r1.date, r1.offeringId, r1.invenOffrngLabel>>
           = <<r2.date, r2.offeringId, r2.invenOffrngLabel>>
        /\ r1.inventoryOfferingHashKey # r2.inventoryOfferingHashKey

\* C6 (as claimed): the same payloads in different arrival orders give identical
\* sorted snapshots, also with one identity key under two counts and with
\* records that differ in the hash key alone.
C6_SnapshotSameInEveryOrder == phase = "ran" => snapshots[1] = snapshots[2]

\* the columns of the file rows that every arrival order agrees on
IdentityColumns(file) == [k \in 1..Len(file) |-> <<file[k][1], file[k][2], file[k][3], file[k][4]>>]
SortColumns(file) == [k \in 1..Len(file) |-> <<file[k][1], file[k][2], file[k][4]>>]

\* C6 (amended): the sorted snapshots of all arrival orders hold the same
\* identity keys and the same sequence of (date, offeringId, invenOffrngLabel);
\* they are identical when no identity key comes with two different counts and
\* no two records differ in the hash key alone.
C6_SnapshotOrderIndependence ==
    phase = "ran" =>
        /\ SortColumns(snapshots[1]) = SortColumns(snapshots[2])
        /\ {IdentityColumns(snapshots[1])[k] : k \in 1..Len(snapshots[1])}
           = {IdentityColumns(snapshots[2])[k] : k \in 1..Len(snapshots[2])}
        /\ Len(snapshots[1]) = Len(snapshots[2])
        /\ (~CountConflict /\ ~HashKeyTie) => snapshots[1] = snapshots[2]

\* two instances, fed in different orders payloads without such records, have
\* both regenerated, and the first arrived out of sorted order
C6_Witness ==
    /\ phase = "ran"
    /\ arrival[1] # arrival[2]
    /\ ~CountConflict /\ ~HashKeyTie
    /\ Len(snapshots[1]) >= 3
    /\ WriteRows(IngestAll(<<>>, arrival[1])) # Tail(snapshots[1])

-----------------------------------------------------------------------------
(* The locked sections of the handler, run step by step by any thread      *)

\* (mutant) the `with` block entered without waiting for the lock
LockFree_NoLock(l) == TRUE

\* `with self.lock:` / `with CSV_LOCK:` can be entered
LockFree(l) == l = NoThread

\* the row the loop `for row in new_rows` is at
CurrentRow(t) == new_rows[t][idx[t]]

\* _append_to_csv / update_csv_realtime: `with self.lock:` entered,
\* unique_new_rows = []
AppendAcquire(t) ==
    /\ pc[t] = "append_lock"
    /\ LockFree(lock)
    /\ lock' = t
    /\ unique_new_rows' = [unique_new_rows EXCEPT ![t] = <<>>]
    /\ idx' = [idx EXCEPT ![t] = 1]
    /\ pc' = [pc EXCEPT ![t] = "append_check"]
    /\ UNCHANGED <<unique_combinations, csvFile, new_rows, key_is_new, ret, cur_input,
                   batches, clockVars, captureVars, watchVars, scanVars, harnessVars, faultVars, histVars>>

\* `for row in new_rows:` ... `if key not in self.unique_combinations:`
AppendCheck(t) ==
    /\ pc[t] = "append_check"
    /\ IF idx[t] > Len(new_rows[t])
       THEN /\ pc' = [pc EXCEPT ![t] = "append_write"]
            /\ UNCHANGED <<key_is_new, offered>>
       ELSE /\ key_is_new' = [key_is_new EXCEPT
                                ![t] = ~KeyIn(KeyOf(CurrentRow(t)), unique_combinations)]
            /\ offered' = Append(offered, CurrentRow(t))
            /\ pc' = [pc EXCEPT ![t] = "append_store"]
    /\ UNCHANGED <<ledgerVars, new_rows, idx, unique_new_rows, ret, cur_input,
                   batches, clockVars, captureVars, watchVars, scanVars, harnessVars, faultVars, ingested>>

\* (mutant) the row stored whether or not its key is new: the last one wins
AppendStore_LastWins(t) ==
    /\ pc[t] = "append_store"
    /\ unique_combinations' = Store(unique_combinations, KeyOf(CurrentRow(t)), CurrentRow(t))
    /\ unique_new_rows' = IF key_is_new[t]
                          THEN [unique_new_rows EXCEPT ![t] = Append(@, CurrentRow(t))]
                          ELSE unique_new_rows
    /\ idx' = [idx EXCEPT ![t] = @ + 1]
    /\ pc' = [pc EXCEPT ![t] = "append_check"]
    /\ UNCHANGED <<csvFile, lock, new_rows, key_is_new, ret, cur_input,
                   batches, clockVars, captureVars, watchVars, scanVars, harnessVars, faultVars, histVars>>

\* (mutant) the batch's new rows collected newest first
AppendStore_NewestFirst(t) ==
    /\ pc[t] = "append_store"
    /\ IF key_is_new[t]
       THEN /\ unique_combinations' =
                   Store(unique_combinations, KeyOf(CurrentRow(t)), CurrentRow(t))
            /\ unique_new_rows' = [unique_new_rows EXCEPT ![t] = <<CurrentRow(t)>> \o @]
       ELSE UNCHANGED <<unique_combinations, unique_new_rows>>
    /\ idx' = [idx EXCEPT ![t] = @ + 1]
    /\ pc' = [pc EXCEPT ![t] = "append_check"]
    /\ UNCHANGED <<csvFile, lock, new_rows, key_is_new, ret, cur_input,
                   batches, clockVars, captureVars, watchVars, scanVars, harnessVars, faultVars, histVars>>

\* `self.unique_combinations[key] = row; unique_new_rows.append(row)`
AppendStore(t) ==
    /\ pc[t] = "append_store"
    /\ IF key_is_new[t]
       THEN /\ unique_combinations' =
                   Store(unique_combinations, KeyOf(CurrentRow(t)), CurrentRow(t))
            /\ unique_new_rows' = [unique_new_rows EXCEPT ![t] = Append(@, CurrentRow(t))]
       ELSE UNCHANGED <<unique_combinations, unique_new_rows>>
    /\ idx' = [idx EXCEPT ![t] = @ + 1]
    /\ pc' = [pc EXCEPT ![t] = "append_check"]
    /\ UNCHANGED <<csvFile, lock, new_rows, key_is_new, ret, cur_input,
                   batches, clockVars, captureVars, watchVars, scanVars, harnessVars, faultVars, histVars>>

\* (mutant) the write of every row of the batch, new or not
AppendWrite_WholeBatch(t) ==
    /\ pc[t] = "append_write"
    /\ IF disk_ok
       THEN /\ csvFile' = csvFile \o WriteRows(new_rows[t])
            /\ UNCHANGED write_errors
       ELSE /\ write_errors' = write_errors
                                \cup {[mode |-> "append", rows |-> new_rows[t]]}
            /\ UNCHANGED csvFile
    /\ pc' = [pc EXCEPT ![t] = "append_unlock"]
    /\ UNCHANGED <<unique_combinations, lock, frameVars, batches, clockVars, captureVars, watchVars, scanVars,
                   harnessVars, histVars, disk_ok, cwd_ok, fallbackFile, fallback_tries>>

\* (mutant) a failed append takes its rows out of the Ledger again
AppendWrite_RollsBack(t) ==
    /\ pc[t] = "append_write"
    /\ IF unique_new_rows[t] = <<>>
       THEN UNCHANGED <<unique_combinations, csvFile, write_errors>>
       ELSE IF disk_ok
       THEN /\ csvFile' = csvFile \o WriteRows(unique_new_rows[t])
            /\ UNCHANGED <<unique_combinations, write_errors>>
       ELSE /\ write_errors' = write_errors
                                \cup {[mode |-> "append", rows |-> unique_new_rows[t]]}
            /\ unique_combinations' =
                   SelectSeq(unique_combinations,
                             LAMBDA r : \A k \in 1..Len(unique_new_rows[t]) :
                                           unique_new_rows[t][k] # r)
            /\ UNCHANGED csvFile
    /\ pc' = [pc EXCEPT ![t] = "append_unlock"]
    /\ UNCHANGED <<lock, frameVars, batches, clockVars, captureVars, watchVars, scanVars,
                   harnessVars, histVars, disk_ok, cwd_ok, fallbackFile, fallback_tries>>

\* `if unique_new_rows:` open(..., 'a') and writerow each; when the open
\* raises, `except Exception` prints the error and the call goes on
AppendWrite(t) ==
    /\ pc[t] = "append_write"
    /\ IF unique_new_rows[t] = <<>>
       THEN UNCHANGED <<csvFile, write_errors>>
       ELSE IF disk_ok
       THEN /\ csvFile' = csvFile \o WriteRows(unique_new_rows[t])
            /\ UNCHANGED write_errors
       ELSE /\ write_errors' = write_errors
                                \cup {[mode |-> "append", rows |-> unique_new_rows[t]]}
            /\ UNCHANGED csvFile
    /\ pc' = [pc EXCEPT ![t] = "append_unlock"]
    /\ UNCHANGED <<unique_combinations, lock, frameVars, batches, clockVars, captureVars, watchVars, scanVars,
                   harnessVars, histVars, disk_ok, cwd_ok, fallbackFile, fallback_tries>>

\* (mutant) a lock taken without `with`: the return after a write that raised
\* does not give it back
AppendRelease_HeldAfterError(t) ==
    /\ pc[t] = "append_unlock"
    /\ lock' = IF [mode |-> "append", rows |-> unique_new_rows[t]] \in write_errors
               THEN lock ELSE NoThread
    /\ pc' = [pc EXCEPT ![t] = ret[t]]
    /\ ingested' = ingested \cup {cur_input[t]}
    /\ UNCHANGED <<unique_combinations, csvFile, frameVars,
                   batches, clockVars, captureVars, watchVars, scanVars, harnessVars, faultVars, offered>>

\* the `with` block is left, the call returns
AppendRelease(t) ==
    /\ pc[t] = "append_unlock"
    /\ lock' = NoThread
    /\ pc' = [pc EXCEPT ![t] = ret[t]]
    /\ ingested' = ingested \cup {cur_input[t]}
    /\ UNCHANGED <<unique_combinations, csvFile, frameVars,
                   batches, clockVars, captureVars, watchVars, scanVars, harnessVars, faultVars, offered>>

\* regenerate_sorted_csv: `with self.lock:` entered
RegenAcquire(t) ==
    /\ pc[t] = "regen_lock"
    /\ LockFree(lock)
    /\ lock' = t
    /\ pc' = [pc EXCEPT ![t] = "regen_write"]
    /\ UNCHANGED <<unique_combinations, csvFile, frameVars,
                   batches, clockVars, captureVars, watchVars, scanVars, harnessVars, faultVars, histVars>>

\* (mutant) the regenerate opening the file with 'a': its output goes after
\* what the file holds
RegenWrite_OpensForAppend(t) ==
    /\ pc[t] = "regen_write"
    /\ IF disk_ok
       THEN /\ csvFile' = csvFile \o RegeneratedFile(unique_combinations)
            /\ UNCHANGED write_errors
       ELSE /\ write_errors' = write_errors
                                \cup {[mode |-> "regenerate",
                                       rows |-> sorted_data(unique_combinations)]}
            /\ UNCHANGED csvFile
    /\ pc' = [pc EXCEPT ![t] = "regen_unlock"]
    /\ UNCHANGED <<unique_combinations, lock, frameVars, batches, clockVars, captureVars, watchVars, scanVars,
                   harnessVars, histVars, disk_ok, cwd_ok, fallbackFile, fallback_tries>>

\* sorted(...), open(..., 'w'), writeheader, writerow each; when the open
\* raises, `except Exception` prints the error and the call goes on
RegenWrite(t) ==
    /\ pc[t] = "regen_write"
    /\ IF disk_ok
       THEN /\ csvFile' = RegeneratedFile(unique_combinations)
            /\ UNCHANGED write_errors
       ELSE /\ write_errors' = write_errors
                                \cup {[mode |-> "regenerate",
                                       rows |-> sorted_data(unique_combinations)]}
            /\ UNCHANGED csvFile
    /\ pc' = [pc EXCEPT ![t] = "regen_unlock"]
    /\ UNCHANGED <<unique_combinations, lock, frameVars, batches, clockVars, captureVars, watchVars, scanVars,
                   harnessVars, histVars, disk_ok, cwd_ok, fallbackFile, fallback_tries>>

\* the `with` block is left, the call returns
RegenRelease(t) ==
    /\ pc[t] = "regen_unlock"
    /\ lock' = NoThread
    /\ pc' = [pc EXCEPT ![t] = ret[t]]
    /\ UNCHANGED <<unique_combinations, csvFile, frameVars,
                   batches, clockVars, captureVars, watchVars, scanVars, harnessVars, faultVars, histVars>>

\* the positions inside `with self.lock:` of an append, of a regenerate
InAppend == {"append_check", "append_store", "append_write", "append_unlock"}
InRegenerate == {"regen_write", "regen_unlock"}

-----------------------------------------------------------------------------
(* SpecProducers: two producers on one handler, each ingesting payloads    *)
(* through update_csv_realtime                                             *)

\* payloads each producer ingests
MaxBatches == 1

Producers == {"p1", "p2"}

\* RealtimeCSVHandler.__init__: _initialize_csv writes the header
InitProducers ==
    /\ unique_combinations = <<>>
    /\ csvFile = <<HeaderRow>>
    /\ lock = NoThread
    /\ pc = [t \in Threads |-> IF t \in Producers THEN "idle" ELSE "off"]
    /\ new_rows = [t \in Threads |-> <<>>]
    /\ idx = [t \in Threads |-> 0]
    /\ unique_new_rows = [t \in Threads |-> <<>>]
    /\ key_is_new = [t \in Threads |-> FALSE]
    /\ ret = [t \in Threads |-> "off"]
    /\ cur_input = [t \in Threads |-> 0]
    /\ batches = [t \in Threads |-> 0]
    /\ IdleWatcher /\ IdleScanner /\ IdleHarness /\ IdleHistory /\ IdleFaults /\ IdleClock /\ IdleCapture

\* update_csv_realtime(new_data) up to `with CSV_LOCK:`: parse, and return at
\* once when nothing was parsed
update_csv_realtime(t, p) ==
    /\ pc[t] = "idle"
    /\ batches[t] < MaxBatches
    /\ batches' = [batches EXCEPT ![t] = @ + 1]
    /\ cur_input' = [cur_input EXCEPT ![t] = p]
    /\ IF ParsedSample(p) = <<>>
       THEN /\ ingested' = ingested \cup {p}
            /\ UNCHANGED <<pc, new_rows, ret>>
       ELSE /\ new_rows' = [new_rows EXCEPT ![t] = ParsedSample(p)]
            /\ ret' = [ret EXCEPT ![t] = "idle"]
            /\ pc' = [pc EXCEPT ![t] = "append_lock"]
            /\ UNCHANGED ingested
    /\ UNCHANGED <<ledgerVars, idx, unique_new_rows, key_is_new, clockVars, captureVars,
                   watchVars, scanVars, harnessVars, faultVars, offered>>

NextProducers ==
    \E t \in Producers :
        \/ \E p \in PayloadIds : update_csv_realtime(t, p)
        \/ AppendAcquire(t)
        \/ AppendCheck(t)
        \/ AppendStore(t)
        \/ AppendWrite(t)
        \/ AppendRelease(t)

SpecProducers == InitProducers /\ [][NextProducers]_vars

\* ---- the identity key of the data model, and what the file holds of it ----

IdentityKey(row) ==
    <<row.date, row.offeringId, row.inventoryOfferingHashKey, row.invenOffrngLabel>>

LedgerKeys == {IdentityKey(unique_combinations[k]) : k \in 1..Len(unique_combinations)}

KeysOfRows(rows) == {IdentityKey(rows[k]) : k \in 1..Len(rows)}

\* the data rows of the file that carry the identity key
FileRowsOf(key) ==
    {k \in 2..Len(csvFile) : <<csvFile[k][1], csvFile[k][2], csvFile[k][3], csvFile[k][4]>> = key}

\* the first row that was offered to the Ledger under the key
FirstOffered(key) ==
    offered[CHOOSE i \in 1..Len(offered) :
                /\ IdentityKey(offered[i]) = key
                /\ \A j \in 1..(i - 1) : IdentityKey(offered[j]) # key]

\* C1: the Ledger holds at most one record per identity key, and the record
\* under a key is the first one offered for it: a later occurrence, also one
\* with another availableCount, never changes it.
C1_FirstInsertedWins ==
    \A k \in 1..Len(unique_combinations) :
        /\ \A j \in 1..Len(unique_combinations) :
              IdentityKey(unique_combinations[j]) = IdentityKey(unique_combinations[k]) => j = k
        /\ \E i \in 1..Len(offered) : IdentityKey(offered[i]) = IdentityKey(unique_combinations[k])
        /\ unique_combinations[k] = FirstOffered(IdentityKey(unique_combinations[k]))

\* a key was offered twice, the second time with another availableCount, and
\* both ingestions have returned
C1_Witness ==
    /\ \A t \in Producers : pc[t] = "idle"
    /\ \E i, j \in 1..Len(offered) :
          /\ i < j
          /\ IdentityKey(offered[i]) = IdentityKey(offered[j])
          /\ offered[i].availableCount # offered[j].availableCount
          /\ \E k \in 1..Len(unique_combinations) : unique_combinations[k] = offered[i]

\* C2: of two producers ingesting batches with one identity key, exactly one
\* treats the key as new: no key is in the unique_new_rows of two producers, no
\* key is on two rows of the file, and with no append under way every key of the
\* Ledger is on exactly one row.
C2_OneInserterPerKey ==
    /\ \A t1, t2 \in Producers :
          t1 # t2 => KeysOfRows(unique_new_rows[t1]) \cap KeysOfRows(unique_new_rows[t2]) = {}
    /\ \A key \in LedgerKeys : Cardinality(FileRowsOf(key)) <= 1
    /\ lock = NoThread => \A key \in LedgerKeys : Cardinality(FileRowsOf(key)) = 1

\* one producer has stored a key as new and still holds the lock while the
\* other waits for the lock with a batch that holds the same key
C2_Witness ==
    \E t1, t2 \in Producers :
        /\ t1 # t2
        /\ pc[t1] = "append_write" /\ lock = t1
        /\ pc[t2] = "append_lock"
        /\ KeysOfRows(unique_new_rows[t1]) \cap KeysOfRows(new_rows[t2]) # {}

\* ---- sequential insertion of the union of the records ----

OfferedSet == {offered[i] : i \in 1..Len(offered)}

\* C4: whenever both producers are between ingestions, the Ledger has the size
\* and the identity keys that inserting the union of the records offered so far
\* sequentially gives, in any order of that union.
C4_ConcurrentConvergence ==
    (\A t \in Producers : pc[t] = "idle") =>
        \A order \in Orders(OfferedSet) :
            LET sequential == InsertAll(<<>>, order)[1] IN
            /\ Len(sequential) = Len(unique_combinations)
            /\ KeysOfRows(sequential) = LedgerKeys

\* both producers have ingested, their batches overlapped in a key and each
\* brought a key of its own
C4_Witness ==
    /\ \A t \in Producers : pc[t] = "idle" /\ batches[t] > 0
    /\ KeysOfRows(new_rows["p1"]) \cap KeysOfRows(new_rows["p2"]) # {}
    /\ KeysOfRows(new_rows["p1"]) # KeysOfRows(new_rows["p2"])
    /\ Len(unique_combinations) >= 2

\* C5: ingesting a payload that was ingested before leaves the size of the
\* Ledger unchanged: no step of such an ingestion, from taking the lock to
\* releasing it, changes the number of records.
C5_SecondIngestionKeepsSize ==
    [][(\E t \in Threads : /\ lock = t
                           /\ pc[t] \in InAppend
                           /\ cur_input[t] \in ingested)
        => Len(unique_combinations') = Len(unique_combinations)]_vars

\* a producer is at the store step of a payload that was ingested before on a
\* Ledger that holds records
C5_Witness ==
    \E t \in Producers :
        /\ lock = t
        /\ pc[t] = "append_store"
        /\ cur_input[t] \in ingested
        /\ unique_combinations # <<>>

-----------------------------------------------------------------------------
(* Spec: the file watcher, run_watcher. The main thread builds the handler, *)
(* processes the files already there, starts the observer and loops; the    *)
(* observer's notification thread handles the events.                       *)

\* events that may wait in the observer's queue
MaxQueue == 2

\* a payload whose last inventory entry has an availableCount int() rejects:
\* the records of sample payload 2, then the entry that raises
sX == <<120>>         \* availableCount "x"
BrokenPayload ==
    OneResort(<<DayWith(sD1, <<EntryOf(sH1, sTwo)>>),
                DayWith(sD2, <<EntryOf(sH1, sFive), EntryOf(sH2, sX)>>)>>)

\* The files that may appear in the watch directory, in name order, each with
\* what it holds: JSON data, or text that json.load rejects.
FileContents ==
    << [valid |-> TRUE, data |-> SamplePayloads[1]],
       [valid |-> TRUE, data |-> BrokenPayload],
       [valid |-> FALSE, data |-> [resorts |-> <<>>]] >>
Files == 1..Len(FileContents)

\* Files that hold JSON without resort data: an object that has no "resorts"
\* key, an object whose "resorts" is an empty list, and the empty object.
QuietContents ==
    << [valid |-> TRUE, data |-> [message |-> <<>>]],
       [valid |-> TRUE, data |-> [resorts |-> <<>>]],
       [valid |-> TRUE, data |-> <<>>] >>
AllContents == FileContents \o QuietContents
QuietFiles == (Len(FileContents) + 1)..Len(AllContents)

\* json.load(f) raises on the file
NotJson(f) == ~AllContents[f].valid

\* self._parse_response(json.load(f), ...), for each file
ParsedFiles == [f \in 1..Len(AllContents) |-> _parse_response(AllContents[f].data)]
ParsedFile(f) == ParsedFiles[f]

\* int(available_count) raises on some entry the loops reach
ParserFails(data) ==
    \E k \in 1..Len(InventoryVisits(data)) :
        ~IntOf(Get(InventoryVisits(data)[k].inventory.availableCount, JStr(<<48>>))).ok

\* (mutant) the listing taken in descending order of name
SortedFiles_Descending(S) ==
    LET RECURSIVE Desc(_)
        Desc(T) == IF T = {} THEN <<>>
                   ELSE LET m == CHOOSE x \in T : \A y \in T : x >= y
                        IN  <<m>> \o Desc(T \ {m})
    IN  Desc(S)

\* sorted(existing_files)
SortedFiles(S) ==
    LET RECURSIVE Asc(_)
        Asc(T) == IF T = {} THEN <<>>
                  ELSE LET m == CHOOSE x \in T : \A y \in T : x <= y
                       IN  <<m>> \o Asc(T \ {m})
    IN  Asc(S)

\* where a thread goes on when _process_file returns
AfterProcess(t) == IF t = "main" THEN "existing_loop" ELSE "idle"

\* what the output path may hold before the watcher starts: nothing, or the
\* file an earlier run left there
PreviousFiles == {<<>>, RegeneratedFile(ParsedSample(3))}

\* (mutant) the header written at the end of what the file held
InitializedFile_Appends(old) == old \o <<HeaderRow>>

\* _initialize_csv: open(self.output_csv, 'w') and writer.writeheader()
InitializedFile(old) == <<HeaderRow>>

WatcherStart ==
    /\ unique_combinations = <<>>
    /\ csvFile \in PreviousFiles
    /\ lock = NoThread
    /\ pc = [t \in Threads |-> IF t = "main" THEN "construct" ELSE "off"]
    /\ new_rows = [t \in Threads |-> <<>>]
    /\ idx = [t \in Threads |-> 0]
    /\ unique_new_rows = [t \in Threads |-> <<>>]
    /\ key_is_new = [t \in Threads |-> FALSE]
    /\ ret = [t \in Threads |-> "off"]
    /\ cur_input = [t \in Threads |-> 0]
    /\ batches = [t \in Threads |-> 0]
    /\ events = <<>>
    /\ processed_files = {}
    /\ existing = <<>>
    /\ stop_requested = FALSE
    /\ IdleScanner /\ IdleHarness /\ IdleHistory /\ IdleFaults

Init == WatcherStart /\ dirFiles \in SUBSET Files /\ IdleClock /\ IdleCapture

\* AvailabilityCSVGenerator.__init__: _initialize_csv, then the listing of
\* _process_existing_files
Construct ==
    /\ pc["main"] = "construct"
    /\ csvFile' = InitializedFile(csvFile)
    /\ existing' = SortedFiles(dirFiles)
    /\ pc' = [pc EXCEPT !["main"] = "existing_loop"]
    /\ UNCHANGED <<unique_combinations, lock, frameVars, batches, clockVars, captureVars, dirFiles, events,
                   processed_files, stop_requested, scanVars, harnessVars, faultVars, histVars>>

\* `for file_path in sorted(existing_files): self._process_file(file_path)`,
\* and after the last one observer.start() and the entry of the try block,
\* `last_regenerate = time.time()`
ExistingLoop ==
    /\ pc["main"] = "existing_loop"
    /\ IF existing # <<>>
       THEN /\ cur_input' = [cur_input EXCEPT !["main"] = Head(existing)]
            /\ existing' = Tail(existing)
            /\ pc' = [pc EXCEPT !["main"] = "process_file"]
            /\ UNCHANGED last_regenerate
       ELSE /\ pc' = [pc EXCEPT !["main"] = "loop", !["observer"] = "idle"]
            /\ last_regenerate' = now
            /\ UNCHANGED <<cur_input, existing>>
    /\ UNCHANGED <<ledgerVars, new_rows, idx, unique_new_rows, key_is_new, ret, batches,
                   now, regenerate_interval, periodic_starts, captureVars,
                   dirFiles, events, processed_files, stop_requested,
                   scanVars, harnessVars, faultVars, histVars>>

\* (mutant) _process_file without its `if file_path in self.processed_files`
ProcessFile_NoProcessedTest(t) ==
    /\ pc[t] = "process_file"
    /\ IF NotJson(cur_input[t])
       THEN /\ pc' = [pc EXCEPT ![t] = AfterProcess(t)]
            /\ UNCHANGED <<new_rows, ret>>
       ELSE /\ new_rows' = [new_rows EXCEPT ![t] = ParsedFile(cur_input[t])]
            /\ ret' = [ret EXCEPT ![t] = "mark_processed"]
            /\ pc' = [pc EXCEPT ![t] = IF ParsedFile(cur_input[t]) # <<>>
                                       THEN "append_lock" ELSE "mark_processed"]
    /\ UNCHANGED <<ledgerVars, idx, unique_new_rows, key_is_new, cur_input, batches, clockVars, captureVars,
                   watchVars, scanVars, harnessVars, faultVars, histVars>>

\* (mutant) _process_file returning before the mark when nothing was parsed
ProcessFile_EmptyNotMarked(t) ==
    /\ pc[t] = "process_file"
    /\ IF cur_input[t] \in processed_files \/ NotJson(cur_input[t])
       THEN /\ pc' = [pc EXCEPT ![t] = AfterProcess(t)]
            /\ UNCHANGED <<new_rows, ret>>
       ELSE /\ new_rows' = [new_rows EXCEPT ![t] = ParsedFile(cur_input[t])]
            /\ ret' = [ret EXCEPT ![t] = "mark_processed"]
            /\ pc' = [pc EXCEPT ![t] = IF ParsedFile(cur_input[t]) # <<>>
                                       THEN "append_lock" ELSE AfterProcess(t)]
    /\ UNCHANGED <<ledgerVars, idx, unique_new_rows, key_is_new, cur_input, batches, clockVars, captureVars,
                   watchVars, scanVars, harnessVars, faultVars, histVars>>

\* (mutant) _process_file with the mark in a `finally`: a file json.load
\* rejects is marked too
ProcessFile_MarksUndecodable(t) ==
    /\ pc[t] = "process_file"
    /\ IF cur_input[t] \in processed_files
       THEN /\ pc' = [pc EXCEPT ![t] = AfterProcess(t)]
            /\ UNCHANGED <<new_rows, ret>>
       ELSE IF NotJson(cur_input[t])
       THEN /\ pc' = [pc EXCEPT ![t] = "mark_processed"]
            /\ UNCHANGED <<new_rows, ret>>
       ELSE /\ new_rows' = [new_rows EXCEPT ![t] = ParsedFile(cur_input[t])]
            /\ ret' = [ret EXCEPT ![t] = "mark_processed"]
            /\ pc' = [pc EXCEPT ![t] = IF ParsedFile(cur_input[t]) # <<>>
                                       THEN "append_lock" ELSE "mark_processed"]
    /\ UNCHANGED <<ledgerVars, idx, unique_new_rows, key_is_new, cur_input, batches, clockVars, captureVars,
                   watchVars, scanVars, harnessVars, faultVars, histVars>>

\* _process_file up to the append: the processed test, json.load, the parse
ProcessFile(t) ==
    /\ pc[t] = "process_file"
    /\ IF cur_input[t] \in processed_files \/ NotJson(cur_input[t])
       THEN \* `return`, or the exception printed: the file is not marked
            /\ pc' = [pc EXCEPT ![t] = AfterProcess(t)]
            /\ UNCHANGED <<new_rows, ret>>
       ELSE /\ new_rows' = [new_rows EXCEPT ![t] = ParsedFile(cur_input[t])]
            /\ ret' = [ret EXCEPT ![t] = "mark_processed"]
            /\ pc' = [pc EXCEPT ![t] = IF ParsedFile(cur_input[t]) # <<>>
                                       THEN "append_lock" ELSE "mark_processed"]
    /\ UNCHANGED <<ledgerVars, idx, unique_new_rows, key_is_new, cur_input, batches, clockVars, captureVars,
                   watchVars, scanVars, harnessVars, faultVars, histVars>>

\* `self.processed_files.add(file_path)`
MarkProcessed(t) ==
    /\ pc[t] = "mark_processed"
    /\ processed_files' = processed_files \cup {cur_input[t]}
    /\ pc' = [pc EXCEPT ![t] = AfterProcess(t)]
    /\ UNCHANGED <<ledgerVars, frameVars, batches, clockVars, captureVars, dirFiles, events, existing,
                   stop_requested, scanVars, harnessVars, faultVars, histVars>>

\* the observer is running and has not been stopped: it queues events
Watching == pc["observer"] \notin {"off", "exited"} /\ ~stop_requested

\* a response file is written into the directory: a created event when the
\* observer is watching (and room is left in the queue)
CreateFile(f) ==
    /\ f \notin dirFiles
    /\ dirFiles' = dirFiles \cup {f}
    /\ events' = IF Watching /\ Len(events) < MaxQueue
                 THEN Append(events, [type |-> "created", src_path |-> f])
                 ELSE events
    /\ UNCHANGED <<ledgerVars, pc, frameVars, batches, clockVars, captureVars, processed_files, existing,
                   stop_requested, scanVars, harnessVars, faultVars, histVars>>

\* a response file is replaced by a new file of the same name: a created
\* event for a path the directory already held
RecreateFile(f) ==
    /\ f \in dirFiles
    /\ Watching /\ Len(events) < MaxQueue
    /\ events' = Append(events, [type |-> "created", src_path |-> f])
    /\ UNCHANGED <<ledgerVars, pc, frameVars, batches, clockVars, captureVars, dirFiles, processed_files, existing,
                   stop_requested, scanVars, harnessVars, faultVars, histVars>>

\* a response file is written again: a modified event
ModifyFile(f) ==
    /\ f \in dirFiles
    /\ Watching /\ Len(events) < MaxQueue
    /\ events' = Append(events, [type |-> "modified", src_path |-> f])
    /\ UNCHANGED <<ledgerVars, pc, frameVars, batches, clockVars, captureVars, dirFiles, processed_files, existing,
                   stop_requested, scanVars, harnessVars, faultVars, histVars>>

\* (mutant) a handler that takes self.lock before its time.sleep(0.5)
Dispatch_HoldsLock ==
    /\ pc["observer"] = "idle"
    /\ ~stop_requested
    /\ events # <<>>
    /\ LockFree(lock)
    /\ events' = Tail(events)
    /\ lock' = "observer"
    /\ cur_input' = [cur_input EXCEPT !["observer"] = Head(events).src_path]
    /\ pc' = [pc EXCEPT !["observer"] = "sleep"]
    /\ UNCHANGED <<unique_combinations, csvFile, new_rows, idx, unique_new_rows, key_is_new,
                   ret, batches, clockVars, captureVars,
                   dirFiles, processed_files, existing, stop_requested,
                   scanVars, harnessVars, faultVars, histVars>>

\* on_created / on_modified up to time.sleep(0.5)
Dispatch ==
    /\ pc["observer"] = "idle"
    /\ ~stop_requested
    /\ events # <<>>
    /\ events' = Tail(events)
    /\ IF Head(events).type = "created" \/ Head(events).src_path \notin processed_files
       THEN /\ cur_input' = [cur_input EXCEPT !["observer"] = Head(events).src_path]
            /\ pc' = [pc EXCEPT !["observer"] = "sleep"]
       ELSE UNCHANGED <<cur_input, pc>>
    /\ UNCHANGED <<ledgerVars, new_rows, idx, unique_new_rows, key_is_new, ret, batches, clockVars, captureVars,
                   dirFiles, processed_files, existing, stop_requested,
                   scanVars, harnessVars, faultVars, histVars>>

\* time.sleep(0.5) is over: self._process_file(...)
SettleDelay ==
    /\ pc["observer"] = "sleep"
    /\ pc' = [pc EXCEPT !["observer"] = "process_file"]
    /\ UNCHANGED <<ledgerVars, frameVars, batches, clockVars, captureVars, watchVars, scanVars, harnessVars, faultVars, histVars>>

\* the notification thread ends once the observer was stopped and the handler
\* it was running has returned
ObserverExit ==
    /\ pc["observer"] = "idle"
    /\ stop_requested
    /\ pc' = [pc EXCEPT !["observer"] = "exited"]
    /\ UNCHANGED <<ledgerVars, frameVars, batches, clockVars, captureVars, watchVars, scanVars, harnessVars, faultVars, histVars>>

\* the loop of run_watcher: the interval has passed, regenerate_sorted_csv()
PeriodicRegenerate ==
    /\ pc["main"] = "loop"
    /\ ret' = [ret EXCEPT !["main"] = "loop"]
    /\ pc' = [pc EXCEPT !["main"] = "regen_lock"]
    /\ UNCHANGED <<ledgerVars, new_rows, idx, unique_new_rows, key_is_new, cur_input, batches, clockVars, captureVars,
                   watchVars, scanVars, harnessVars, faultVars, histVars>>

\* KeyboardInterrupt inside the try block, in the sleep or in the periodic
\* regenerate (whose `with` block then gives the lock back): observer.stop(),
\* then the final regenerate_sorted_csv()
Interrupt ==
    /\ \/ pc["main"] \in {"loop", "stamp"}
       \/ /\ pc["main"] \in {"regen_lock", "regen_write", "regen_unlock"}
          /\ ret["main"] \in {"loop", "stamp"}
    /\ stop_requested' = TRUE
    /\ lock' = IF lock = "main" THEN NoThread ELSE lock
    /\ ret' = [ret EXCEPT !["main"] = "join"]
    /\ pc' = [pc EXCEPT !["main"] = "regen_lock"]
    /\ UNCHANGED <<unique_combinations, csvFile, new_rows, idx, unique_new_rows, key_is_new,
                   cur_input, batches, clockVars, captureVars, dirFiles, events, processed_files, existing,
                   scanVars, harnessVars, faultVars, histVars>>

\* observer.join() returns: the notification thread has ended
Join ==
    /\ pc["main"] = "join"
    /\ pc["observer"] = "exited"
    /\ pc' = [pc EXCEPT !["main"] = "done"]
    /\ UNCHANGED <<ledgerVars, frameVars, batches, clockVars, captureVars, watchVars, scanVars, harnessVars, faultVars, histVars>>

WatcherThreads == {"main", "observer"}

Next ==
    \/ Construct
    \/ ExistingLoop
    \/ \E f \in Files : CreateFile(f)
    \/ \E f \in Files : RecreateFile(f)
    \/ \E f \in Files : ModifyFile(f)
    \/ Dispatch
    \/ SettleDelay
    \/ ObserverExit
    \/ PeriodicRegenerate
    \/ Interrupt
    \/ Join
    \/ \E t \in WatcherThreads :
          \/ ProcessFile(t)
          \/ MarkProcessed(t)
          \/ AppendAcquire(t)
          \/ AppendCheck(t)
          \/ AppendStore(t)
          \/ AppendWrite(t)
          \/ AppendRelease(t)
          \/ RegenAcquire(t)
          \/ RegenWrite(t)
          \/ RegenRelease(t)

Spec == Init /\ [][Next]_vars

\* the threads inside the `with self.lock:` block of an append or a regenerate
InCriticalSection == {t \in Threads : pc[t] \in InAppend \cup InRegenerate}

\* C3: an append write and a regenerate write of the output file never overlap:
\* at most one thread is inside an append or regenerate critical section, and
\* it is the one that holds the lock.
C3_WritesNeverOverlap ==
    /\ Cardinality(InCriticalSection) <= 1
    /\ \A t \in InCriticalSection : lock = t

\* the notification thread is writing an append while the main thread stands
\* at the lock of its final regenerate
C3_Witness ==
    /\ pc["observer"] = "append_write"
    /\ unique_new_rows["observer"] # <<>>
    /\ pc["main"] = "regen_lock"
    /\ ret["main"] = "join"

-----------------------------------------------------------------------------
(* The realtime scanner: main() walks MONTHS_TO_SCAN months on one thread,  *)
(* every captured availability response goes through update_csv_realtime    *)

MONTHS_TO_SCAN == 9

\* availability responses captured over the whole scan
MaxCaptures == 2

\* csv_handler = RealtimeCSVHandler(CSV_OUTPUT_FILE) has run: the header is
\* written, the month loop starts at month_idx = 0
InitScanner ==
    /\ unique_combinations = <<>>
    /\ csvFile = <<HeaderRow>>
    /\ lock = NoThread
    /\ pc = [t \in Threads |-> IF t = "scanner" THEN "month" ELSE "off"]
    /\ new_rows = [t \in Threads |-> <<>>]
    /\ idx = [t \in Threads |-> 0]
    /\ unique_new_rows = [t \in Threads |-> <<>>]
    /\ key_is_new = [t \in Threads |-> FALSE]
    /\ ret = [t \in Threads |-> "off"]
    /\ cur_input = [t \in Threads |-> 0]
    /\ batches = [t \in Threads |-> 0]
    /\ month_idx = 0
    /\ captures = 0
    /\ IdleWatcher /\ IdleHarness /\ IdleHistory /\ IdleFaults /\ IdleClock /\ IdleCapture

\* process_month_left_panel -> get_availability_response ->
\* csv_handler.update_csv_realtime(availability_data): parse, return at once
\* when nothing was parsed, else go on to `with CSV_LOCK:`
CaptureResponse(p) ==
    /\ pc["scanner"] = "month"
    /\ captures < MaxCaptures
    /\ captures' = captures + 1
    /\ cur_input' = [cur_input EXCEPT !["scanner"] = p]
    /\ IF ParsedSample(p) = <<>>
       THEN /\ ingested' = ingested \cup {p}
            /\ UNCHANGED <<pc, new_rows, ret>>
       ELSE /\ new_rows' = [new_rows EXCEPT !["scanner"] = ParsedSample(p)]
            /\ ret' = [ret EXCEPT !["scanner"] = "month"]
            /\ pc' = [pc EXCEPT !["scanner"] = "append_lock"]
            /\ UNCHANGED ingested
    /\ UNCHANGED <<ledgerVars, idx, unique_new_rows, key_is_new, batches, clockVars, captureVars,
                   watchVars, month_idx, harnessVars, faultVars, offered>>

\* process_month_left_panel has returned or raised:
\* `if (month_idx + 1) % 3 == 0: csv_handler.regenerate_sorted_csv()`
EndOfMonth ==
    /\ pc["scanner"] = "month"
    /\ IF (month_idx + 1) % 3 = 0
       THEN /\ ret' = [ret EXCEPT !["scanner"] = "advance"]
            /\ pc' = [pc EXCEPT !["scanner"] = "regen_lock"]
       ELSE /\ pc' = [pc EXCEPT !["scanner"] = "advance"]
            /\ UNCHANGED ret
    /\ UNCHANGED <<ledgerVars, new_rows, idx, unique_new_rows, key_is_new, cur_input,
                   batches, clockVars, captureVars, watchVars, scanVars, harnessVars, faultVars, histVars>>

\* `if month_idx < MONTHS_TO_SCAN - 1: ok = goto_next_month(driver)`, `break`
\* when it failed; leaving the loop leads to the final regenerate_sorted_csv()
Advance(ok) ==
    /\ pc["scanner"] = "advance"
    /\ IF month_idx < MONTHS_TO_SCAN - 1 /\ ok
       THEN /\ month_idx' = month_idx + 1
            /\ pc' = [pc EXCEPT !["scanner"] = "month"]
            /\ UNCHANGED ret
       ELSE /\ ret' = [ret EXCEPT !["scanner"] = "complete"]
            /\ pc' = [pc EXCEPT !["scanner"] = "regen_lock"]
            /\ UNCHANGED month_idx
    /\ UNCHANGED captures
    /\ UNCHANGED <<ledgerVars, new_rows, idx, unique_new_rows, key_is_new, cur_input,
                   batches, clockVars, captureVars, watchVars, harnessVars, faultVars, histVars>>

\* the closing prints of the try block; main() returns
ScanComplete ==
    /\ pc["scanner"] = "complete"
    /\ pc' = [pc EXCEPT !["scanner"] = "done"]
    /\ UNCHANGED <<ledgerVars, frameVars, batches, clockVars, captureVars, watchVars, scanVars, harnessVars, faultVars, histVars>>

\* `except KeyboardInterrupt:` two prints and main() returns; a `with CSV_LOCK:`
\* block that was under way gives the lock back
KeyboardInterrupt ==
    /\ pc["scanner"] \notin {"off", "done"}
    /\ lock' = IF lock = "scanner" THEN NoThread ELSE lock
    /\ pc' = [pc EXCEPT !["scanner"] = "done"]
    /\ UNCHANGED <<unique_combinations, csvFile, frameVars,
                   batches, clockVars, captureVars, watchVars, scanVars, harnessVars, faultVars, histVars>>

NextScanner ==
    \/ \E p \in PayloadIds : CaptureResponse(p)
    \/ EndOfMonth
    \/ \E ok \in BOOLEAN : Advance(ok)
    \/ ScanComplete
    \/ KeyboardInterrupt
    \/ AppendAcquire("scanner")
    \/ AppendCheck("scanner")
    \/ AppendStore("scanner")
    \/ AppendWrite("scanner")
    \/ AppendRelease("scanner")
    \/ RegenAcquire("scanner")
    \/ RegenWrite("scanner")
    \/ RegenRelease("scanner")

SpecScanner == InitScanner /\ [][NextScanner]_vars

\* C8: however the scan ends (all months done, the next month not reachable,
\* user interrupt), a final regenerate has run, so the output file ends as the
\* header followed by every Ledger record in sorted order.
C8_FileSortedWhenScanEnds ==
    pc["scanner"] = "done" => csvFile = RegeneratedFile(unique_combinations)

-----------------------------------------------------------------------------
(* SpecLabels: the Parser applied to one offering with one inventory entry, *)
(* over the texts of offeringId, offeringLabel and invenOffrngLabel         *)

\* the texts are made of at most MaxWords words
MaxWords == 2

\* "A", "Presidential Reserve", "Presidential"
Words == {<<65>>, PresidentialReserve, SubSeq(PresidentialReserve, 1, 12)}

\* every text of at most n words; the empty text is what .get(..., '') gives
\* for a field that is missing
RECURSIVE Texts(_)
Texts(n) == IF n = 0 THEN {<<>>}
            ELSE Texts(n - 1) \cup {t \o w : t \in Texts(n - 1), w \in Words}

\* one resort with units, one offering, one available day, one entry with
\* availableCount "2"
LabelPayload(offering_id, offering_label, inventory_label) ==
    [resorts |->
       <<[hasAvailableUnits |-> "true",
          resortOfferings |->
             <<[offeringId |-> offering_id, offeringLabel |-> offering_label,
                accomdationClasses |->
                   <<[calendarDays |->
                         <<[available |-> "true", date |-> sD1,
                            inventoryOfferings |->
                               <<[availableCount |-> JStr(sTwo),
                                  inventoryOfferingHashKey |-> sH1,
                                  invenOffrngLabel |-> inventory_label]>>]>>]>>]>>]>>]

InitLabels ==
    /\ IdleLedger /\ IdleThreads /\ IdleWatcher /\ IdleScanner /\ IdleHistory /\ IdleFaults /\ IdleClock /\ IdleCapture
    /\ \E offering_id \in Texts(MaxWords), offering_label \in Texts(MaxWords),
          inventory_label \in Texts(MaxWords) :
          payload = LabelPayload(offering_id, offering_label, inventory_label)
    /\ data_rows = <<>>
    /\ arrival = <<>> /\ snapshots = <<>>
    /\ phase = "input"

SpecLabels == InitLabels /\ [][NextParser]_vars

\* the offering and the inventory entry of the payload
TheOffering == payload.resorts[1].resortOfferings[1]
TheInventory == TheOffering.accomdationClasses[1].calendarDays[1].inventoryOfferings[1]

\* C11: the emitted offeringId is offeringId + " Presidential Reserve" exactly
\* when offeringLabel contains "Presidential Reserve" and offeringId does not,
\* and offeringId unchanged otherwise; the rule applied to an emitted
\* offeringId changes nothing.
C11_OfferingIdNormalized ==
    phase = "parsed" =>
        LET id == TheOffering.offeringId
            label == TheOffering.offeringLabel
            expected == IF Contains(label, PresidentialReserve)
                           /\ ~Contains(id, PresidentialReserve)
                        THEN id \o <<32>> \o PresidentialReserve
                        ELSE id
        IN  /\ Len(data_rows) = 1
            /\ data_rows[1].offeringId = expected
            /\ DisplayOfferingId(data_rows[1].offeringId, label) = data_rows[1].offeringId

\* a marked offering whose id carried no marker was parsed: the id got the suffix
C11_Witness ==
    /\ phase = "parsed"
    /\ Contains(TheOffering.offeringLabel, PresidentialReserve)
    /\ ~Contains(TheOffering.offeringId, PresidentialReserve)
    /\ TheOffering.offeringId # <<>>
    /\ Len(data_rows) = 1
    /\ data_rows[1].offeringId = TheOffering.offeringId \o IdSuffix

\* C12: the emitted invenOffrngLabel is the entry's label + " (Presidential
\* Reserve)" exactly when the offering's label contains "Presidential Reserve"
\* and the entry's own label does not; otherwise it is the label unchanged.
C12_InventoryLabelNormalized ==
    phase = "parsed" =>
        LET own == TheInventory.invenOffrngLabel
            label == TheOffering.offeringLabel
            expected == IF Contains(label, PresidentialReserve)
                           /\ ~Contains(own, PresidentialReserve)
                        THEN own \o <<32, 40>> \o PresidentialReserve \o <<41>>
                        ELSE own
        IN  /\ Len(data_rows) = 1
            /\ data_rows[1].invenOffrngLabel = expected

\* under a marked offering one entry label got the suffix; the state also
\* shows the id, which carried the marker, left alone
C12_Witness ==
    /\ phase = "parsed"
    /\ Contains(TheOffering.offeringLabel, PresidentialReserve)
    /\ Contains(TheOffering.offeringId, PresidentialReserve)
    /\ ~Contains(TheInventory.invenOffrngLabel, PresidentialReserve)
    /\ TheInventory.invenOffrngLabel # <<>>
    /\ Len(data_rows) = 1
    /\ data_rows[1].invenOffrngLabel = TheInventory.invenOffrngLabel \o LabelSuffix
    /\ data_rows[1].offeringId = TheOffering.offeringId

-----------------------------------------------------------------------------
(* SpecFaults: the file watcher while the output path comes and goes        *)

\* the output path stops being writable (directory removed, disk full, ...)
\* once the handler has been constructed; one outage is followed: the path
\* does not go away again after a write has raised
PathFails ==
    /\ pc["main"] \notin {"off", "construct"}
    /\ disk_ok
    /\ write_errors = {}
    /\ disk_ok' = FALSE
    /\ UNCHANGED <<ledgerVars, pc, frameVars, batches, clockVars, captureVars, watchVars, scanVars, harnessVars,
                   histVars, cwd_ok, fallbackFile, fallback_tries, write_errors>>

\* the underlying problem is fixed
PathRestored ==
    /\ ~disk_ok
    /\ disk_ok' = TRUE
    /\ UNCHANGED <<ledgerVars, pc, frameVars, batches, clockVars, captureVars, watchVars, scanVars, harnessVars,
                   histVars, cwd_ok, fallbackFile, fallback_tries, write_errors>>

\* the watcher with files that are written once (no modified events, no file
\* replaced), under a path that fails and comes back
NextFaults ==
    \/ Construct
    \/ ExistingLoop
    \/ \E f \in Files : CreateFile(f)
    \/ Dispatch
    \/ SettleDelay
    \/ ObserverExit
    \/ PeriodicRegenerate
    \/ Interrupt
    \/ Join
    \/ \E t \in WatcherThreads :
          \/ ProcessFile(t)
          \/ MarkProcessed(t)
          \/ AppendAcquire(t)
          \/ AppendCheck(t)
          \/ AppendStore(t)
          \/ AppendWrite(t)
          \/ AppendRelease(t)
          \/ RegenAcquire(t)
          \/ RegenWrite(t)
          \/ RegenRelease(t)
    \/ PathFails
    \/ PathRestored

SpecFaults == Init /\ [][NextFaults]_vars

-----------------------------------------------------------------------------
(* SpecConverter: response_to_csv.process_directory, one run over the       *)
(* directory; its write is the one place with a second path to fall back on *)

\* (mutant) the aggregation keeping the last occurrence of a key
aggregate_by_date_LastWins(all_data) ==
    LET RECURSIVE Fold(_, _)
        Fold(ledger, rows) ==
            IF rows = <<>> THEN ledger
            ELSE Fold(Store(ledger, KeyOf(Head(rows)), Head(rows)), Tail(rows))
    IN  sorted_data(Fold(<<>>, all_data))

\* aggregate_by_date: first occurrence per key, then the three-field sort
aggregate_by_date(all_data) == sorted_data(InsertAll(<<>>, all_data)[1])

\* parse_network_response(file_path): [] when json.load raises
ConvertedFile(f) == IF NotJson(f) THEN <<>> ELSE ParsedFile(f)

InitConverter ==
    /\ IdleLedger /\ IdleThreads /\ IdleScanner /\ IdleHistory
    /\ dirFiles \in SUBSET Files
    /\ events = <<>> /\ processed_files = {} /\ existing = <<>> /\ stop_requested = FALSE
    /\ payload = [resorts |-> <<>>] /\ data_rows = <<>>
    /\ arrival = <<>> /\ snapshots = <<>>
    /\ phase = "list"
    /\ disk_ok \in BOOLEAN /\ cwd_ok \in BOOLEAN
    /\ fallbackFile = <<>> /\ fallback_tries = 0 /\ write_errors = {}
    /\ IdleClock /\ IdleCapture

\* response_files = list(directory.glob(...)); `if not response_files: return`
ListDirectory ==
    /\ phase = "list"
    /\ existing' = SortedFiles(dirFiles)
    /\ phase' = IF dirFiles = {} THEN "done" ELSE "read"
    /\ UNCHANGED <<ledgerVars, pc, frameVars, batches, clockVars, captureVars, dirFiles, events, processed_files,
                   stop_requested, scanVars, payload, data_rows, arrival, snapshots,
                   histVars, faultVars>>

\* `for file_path in sorted(response_files):` all_data.extend(file_data)
ReadFile ==
    /\ phase = "read"
    /\ existing # <<>>
    /\ data_rows' = data_rows \o ConvertedFile(Head(existing))
    /\ existing' = Tail(existing)
    /\ UNCHANGED <<ledgerVars, pc, frameVars, batches, clockVars, captureVars, dirFiles, events, processed_files,
                   stop_requested, scanVars, payload, arrival, snapshots, phase,
                   histVars, faultVars>>

\* aggregate, then the write to directory_path / output_file; when it raises,
\* the same write to Path.cwd() / output_file, whose failure is only printed
WriteOutput ==
    /\ phase = "read"
    /\ existing = <<>>
    /\ LET aggregated_data == aggregate_by_date(data_rows)
           written == <<HeaderRow>> \o WriteRows(aggregated_data)
       IN  IF disk_ok
           THEN /\ csvFile' = written
                /\ UNCHANGED <<fallbackFile, fallback_tries, write_errors>>
           ELSE /\ write_errors' = write_errors
                                    \cup {[mode |-> "regenerate", rows |-> aggregated_data]}
                /\ fallback_tries' = fallback_tries + 1
                /\ fallbackFile' = IF cwd_ok THEN written ELSE fallbackFile
                /\ UNCHANGED csvFile
    /\ phase' = "done"
    /\ UNCHANGED <<unique_combinations, lock, pc, frameVars, batches, clockVars, captureVars, watchVars, scanVars,
                   payload, data_rows, arrival, snapshots, histVars, disk_ok, cwd_ok>>

NextConverter ==
    \/ ListDirectory
    \/ ReadFile
    \/ WriteOutput

SpecConverter == InitConverter /\ [][NextConverter]_vars

\* C13: a write of the output file that fails, in append mode or in
\* regenerate mode, is retried once against the fallback path in the working
\* directory: every step in which a write raises is a step that tries the
\* fallback path.
C13_FailedWriteTriesFallback ==
    [][write_errors' # write_errors => fallback_tries' = fallback_tries + 1]_vars

\* the rows of a sequence of rows; the records whose append raised
RowSet(rows) == {rows[k] : k \in 1..Len(rows)}
FailedAppendRows ==
    UNION {RowSet(e.rows) : e \in {x \in write_errors : x.mode = "append"}}

\* a regenerate write that succeeds in this step
RegenerateSucceeds ==
    \E t \in Threads : pc[t] = "regen_write" /\ pc'[t] = "regen_unlock" /\ disk_ok

\* C14: a failed append or regenerate write leaves the Ledger holding every
\* record inserted so far, the records of the batch whose append failed
\* included; the next regenerate that succeeds writes all of them to the file.
C14_LedgerSurvivesFailedWrite ==
    [][/\ RowSet(unique_combinations) \subseteq RowSet(unique_combinations')
       /\ FailedAppendRows' \subseteq RowSet(unique_combinations')
       /\ RegenerateSucceeds =>
             /\ csvFile' = RegeneratedFile(unique_combinations')
             /\ \A row \in FailedAppendRows' :
                   \E k \in 1..Len(csvFile') : csvFile'[k] = WriteRow(row)]_vars

\* an append has raised and a later regenerate has put its rows in the file
C14_Witness ==
    /\ FailedAppendRows # {}
    /\ \E t \in Threads : pc[t] = "regen_unlock"
    /\ \A row \in FailedAppendRows : \E k \in 1..Len(csvFile) : csvFile[k] = WriteRow(row)
    /\ csvFile = RegeneratedFile(unique_combinations)

\* a file that is not valid JSON, or whose payload makes the Parser raise
Offending(f) == NotJson(f) \/ ParserFails(FileContents[f].data)

\* C15: a payload that is not valid structured data, or that makes the Parser
\* fail, never stops the session: the offending file is skipped, the Ledger
\* and the output file keep their prior contents, and the thread goes on to
\* the next file or event. Every step that takes up an offending file returns
\* from _process_file at once and nothing of the file is ingested.
C15_OffendingFileSkipped ==
    [][\A t \in WatcherThreads :
          (/\ pc[t] = "process_file"
           /\ pc'[t] # "process_file"
           /\ cur_input[t] \notin processed_files
           /\ Offending(cur_input[t]))
          => /\ pc'[t] = AfterProcess(t)
             /\ new_rows'[t] = new_rows[t]
             /\ unique_combinations' = unique_combinations
             /\ csvFile' = csvFile]_vars

\* C16: a file whose path is in the processed-file set is never read or
\* offered to the Ledger again, whatever create and modify events arrive for
\* it: no thread is past the read of a file (appending its rows or about to
\* mark it) while that file is in the set.
C16_ProcessedFileNeverReread ==
    \A t \in WatcherThreads :
        pc[t] \in {"append_lock", "mark_processed"} \cup InAppend
        => cur_input[t] \notin processed_files

\* a created event for a consumed file has reached _process_file, which is
\* about to return at its first test
C16_Witness ==
    /\ pc["observer"] = "process_file"
    /\ cur_input["observer"] \in processed_files
    /\ ~NotJson(cur_input["observer"])

\* the positions of the main thread inside AvailabilityCSVGenerator.__init__
InStartup ==
    pc["main"] \in {"construct", "existing_loop", "process_file", "mark_processed",
                    "append_lock"} \cup InAppend

\* C17: at startup every matching file already in the directory is fed through
\* the pipeline exactly once, in ascending order of file name, and all of them
\* before the first filesystem event is handled: the listing holds every file
\* present, each once, in ascending order; each step of the loop hands
\* _process_file the smallest file not yet fed; and while the main thread is
\* in the startup scan the observer is not running and no event is queued.
C17_StartupScanInOrderBeforeEvents ==
    [][/\ (pc["main"] = "construct" /\ pc'["main"] # "construct")
          => /\ RowSet(existing') = dirFiles
             /\ Len(existing') = Cardinality(dirFiles)
             /\ \A i, j \in 1..Len(existing') : i < j => existing'[i] < existing'[j]
       /\ (pc["main"] = "existing_loop" /\ pc'["main"] = "process_file")
          => /\ cur_input'["main"] = Head(existing)
             /\ existing' = Tail(existing)
             /\ \A k \in 1..Len(existing') : cur_input'["main"] < existing'[k]
       /\ (pc["main"] = "existing_loop" /\ existing # <<>>)
          => pc'["main"] \in {"existing_loop", "process_file"}
       /\ InStartup' => pc'["observer"] = "off" /\ events' = <<>>]_vars

\* the startup scan has fed files 1 and 2, in that order (the first-wins
\* Ledger holds the record of file 1 before that of file 2), and the observer
\* has not been started
C17_Witness ==
    /\ pc["main"] = "existing_loop"
    /\ existing = <<>>
    /\ processed_files = {1, 2}
    /\ pc["observer"] = "off"
    /\ Len(unique_combinations) = 2
    /\ unique_combinations[1].date = sD2
    /\ unique_combinations[2].date = sD1

\* the sort fields of the k-th data row of the output file
FileSortKey(k) == <<csvFile[k + 1][1], csvFile[k + 1][2], csvFile[k + 1][4]>>

\* the place in the Ledger of the record written as the k-th data row
LedgerPlace(k) ==
    CHOOSE i \in 1..Len(unique_combinations) :
        WriteRow(unique_combinations[i]) = csvFile[k + 1]

\* C18: after a successful regenerate the output file is the header row
\* followed by all records of the Ledger, each exactly once, in ascending
\* order of (date, offeringId, invenOffrngLabel); records equal on those three
\* fields keep their Ledger insertion order.
C18_RegenerateWritesSortedLedger ==
    pc["scanner"] = "regen_unlock" =>
        LET n == Len(unique_combinations) IN
        /\ csvFile[1] = HeaderRow
        /\ Len(csvFile) = n + 1
        /\ \A i \in 1..n :
              Cardinality({k \in 1..n : csvFile[k + 1] = WriteRow(unique_combinations[i])}) = 1
        /\ \A a, b \in 1..n :
              a < b => /\ ~TupleLess(FileSortKey(b), FileSortKey(a))
                       /\ FileSortKey(a) = FileSortKey(b) => LedgerPlace(a) < LedgerPlace(b)

\* a regenerate has reordered three records, two of them equal on the sort
\* fields and written in their insertion order
C18_Witness ==
    /\ pc["scanner"] = "regen_unlock"
    /\ Len(unique_combinations) = 3
    /\ csvFile # <<HeaderRow>> \o WriteRows(unique_combinations)
    /\ \E a, b \in 1..3 : a < b /\ FileSortKey(a) = FileSortKey(b)

\* the rows of the output file that are the header row
HeaderRowsOf(file) == {k \in 1..Len(file) : file[k] = HeaderRow}

RECURSIVE IsSubsequence(_, _)
IsSubsequence(a, b) ==
    IF a = <<>> THEN TRUE
    ELSE IF b = <<>> THEN FALSE
    ELSE IF Head(a) = Head(b) THEN IsSubsequence(Tail(a), Tail(b))
    ELSE IsSubsequence(a, Tail(b))

\* the last n elements of a sequence
LastOf(seq, n) == SubSeq(seq, Len(seq) - n + 1, Len(seq))

\* C20: within one producer's ingestion of one payload the newly inserted
\* records enter the Ledger and are appended to the output file in the order
\* the Parser emitted them, with no record of another producer's batch between
\* them: while a producer is inside its append, the records it has inserted
\* are the last records of the Ledger, in Parser order, and once it has
\* written they are the last rows of the file in that order.
C20_BatchKeepsParserOrder ==
    \A t \in Producers :
        pc[t] \in InAppend =>
            LET inserted == unique_new_rows[t] IN
            /\ IsSubsequence(inserted, new_rows[t])
            /\ Len(inserted) <= Len(unique_combinations)
            /\ LastOf(unique_combinations, Len(inserted)) = inserted
            /\ pc[t] = "append_unlock"
               => /\ Len(inserted) < Len(csvFile)
                  /\ LastOf(csvFile, Len(inserted)) = WriteRows(inserted)

\* a producer has inserted and written a batch of two records while the other
\* producer, its payload parsed, waits for the lock
C20_Witness ==
    \E t, u \in Producers :
        /\ pc[t] = "append_unlock"
        /\ Len(unique_new_rows[t]) = 2
        /\ pc[u] = "append_lock"
        /\ new_rows[u] # <<>>

-----------------------------------------------------------------------------
(* SpecInterval: run_watcher with its clock; the watch directory receives   *)
(* no file after the startup scan                                           *)

MaxClock == 5
MaxInterval == 2

\* (mutant) the interval test with >= in place of >
IntervalPassed_AtLeast(n, last, interval) == n - last >= interval

\* `time.time() - last_regenerate > regenerate_interval`
IntervalPassed(n, last, interval) == n - last > interval

InitInterval ==
    /\ WatcherStart
    /\ dirFiles \in SUBSET (Files \cup QuietFiles)
    /\ now = 0 /\ last_regenerate = 0
    /\ regenerate_interval \in 0..MaxInterval
    /\ periodic_starts = <<>>
    /\ IdleCapture

\* wall-clock time passes while the program runs
Tick ==
    /\ pc["main"] # "done"
    /\ now < MaxClock
    /\ now' = now + 1
    /\ UNCHANGED <<ledgerVars, pc, frameVars, batches, last_regenerate, regenerate_interval,
                   periodic_starts, captureVars, watchVars, scanVars, harnessVars, faultVars, histVars>>

\* one iteration of `while True`: time.sleep(1), then the two tests, and on
\* success the call of regenerate_sorted_csv()
LoopIteration ==
    /\ pc["main"] = "loop"
    /\ now < MaxClock
    /\ now' = now + 1
    /\ IF regenerate_interval > 0
          /\ IntervalPassed(now', last_regenerate, regenerate_interval)
       THEN /\ ret' = [ret EXCEPT !["main"] = "stamp"]
            /\ pc' = [pc EXCEPT !["main"] = "regen_lock"]
            /\ periodic_starts' = Append(periodic_starts, now')
       ELSE UNCHANGED <<pc, ret, periodic_starts>>
    /\ UNCHANGED <<ledgerVars, new_rows, idx, unique_new_rows, key_is_new, cur_input, batches,
                   last_regenerate, regenerate_interval, captureVars,
                   watchVars, scanVars, harnessVars, faultVars, histVars>>

\* `last_regenerate = time.time()` after the periodic regenerate returned
StampRegenerate ==
    /\ pc["main"] = "stamp"
    /\ last_regenerate' = now
    /\ pc' = [pc EXCEPT !["main"] = "loop"]
    /\ UNCHANGED <<ledgerVars, frameVars, batches, now, regenerate_interval, periodic_starts,
                   captureVars, watchVars, scanVars, harnessVars, faultVars, histVars>>

NextInterval ==
    \/ Construct
    \/ ExistingLoop
    \/ ProcessFile("main")
    \/ MarkProcessed("main")
    \/ AppendAcquire("main")
    \/ AppendCheck("main")
    \/ AppendStore("main")
    \/ AppendWrite("main")
    \/ AppendRelease("main")
    \/ RegenAcquire("main")
    \/ RegenWrite("main")
    \/ RegenRelease("main")
    \/ Tick
    \/ LoopIteration
    \/ StampRegenerate
    \/ ObserverExit
    \/ Interrupt
    \/ Join

SpecInterval == InitInterval /\ [][NextInterval]_vars

\* C21: with regenerate interval 0 the loop never starts a regenerate; with a
\* positive interval two regenerates started by the loop are more than that
\* many seconds apart; and once the watcher has shut down the output file is
\* the regenerated (sorted) file of the ledger, whatever the interval.
C21_PeriodicRegenerateFollowsInterval ==
    /\ regenerate_interval = 0 => periodic_starts = <<>>
    /\ \A i \in 2..Len(periodic_starts) :
          periodic_starts[i] - periodic_starts[i - 1] > regenerate_interval
    /\ pc["main"] = "done" => csvFile = RegeneratedFile(unique_combinations)

\* the loop regenerated twice and the watcher has shut down
C21_Witness ==
    /\ pc["main"] = "done"
    /\ Len(periodic_starts) >= 2
    /\ Len(unique_combinations) >= 2

-----------------------------------------------------------------------------
(* The settle delay and the lock                                            *)

\* C22: the notification thread never holds the lock while it waits in its
\* settle delay, so the lock is free for, or held by, another thread.
C22_NoLockDuringSettleDelay ==
    pc["observer"] = "sleep" => lock # "observer"

\* a handler waits in its settle delay while the main thread's regenerate has
\* taken the lock, rewritten the file and is about to release the lock
C22_Witness ==
    /\ pc["observer"] = "sleep"
    /\ pc["main"] = "regen_unlock"
    /\ lock = "main"
    /\ csvFile = RegeneratedFile(unique_combinations)
    /\ unique_combinations # <<>>

-----------------------------------------------------------------------------
(* Payloads without resort data                                             *)

\* the main thread is inside _process_file on a file without resort data
HandlingQuietFile ==
    /\ pc["main"] \in {"process_file", "mark_processed"}
    /\ cur_input["main"] \in QuietFiles

\* C23: a file whose JSON has no "resorts" key, or an empty resorts
\* collection, yields no record: while the watcher handles it the ledger and
\* the output file stay as they are, no append is entered, and when the
\* handling returns the file is in the processed set.
C23_NoResortsIsZeroRecords ==
    [][HandlingQuietFile =>
          /\ unique_combinations' = unique_combinations
          /\ csvFile' = csvFile
          /\ pc'["main"] \in {"process_file", "mark_processed", "existing_loop"}
          /\ pc'["main"] = "existing_loop" => cur_input["main"] \in processed_files']_vars

\* the startup scan has ingested a record and gone through files of all three
\* kinds without resort data, all now recorded as processed
C23_Witness ==
    /\ pc["main"] = "loop"
    /\ QuietFiles \subseteq processed_files
    /\ Len(unique_combinations) >= 1
    /\ Len(csvFile) = Len(unique_combinations) + 1

-----------------------------------------------------------------------------
(* SpecProvenance: two handler instances fed the same payloads in the same  *)
(* order, each call with a provenance label of its own                      *)

MaxFeed == 2

sJan == <<74, 97, 110>>     \* "Jan"
sFeb == <<70, 101, 98>>     \* "Feb"

\* source_info / source_name: the default "", or a text naming the source
Labels == {<<>>, sJan, sFeb}

\* (mutant) the label written into the offeringId of the rows it came with
LabelledRows_Stamped(rows, source_info) ==
    [k \in 1..Len(rows) |-> [rows[k] EXCEPT !.offeringId = @ \o source_info]]

\* parse_network_response(response_data, source_info): the rows returned; the
\* label goes into the `Parsed ... from {source_info}` line only
LabelledRows(rows, source_info) == rows

\* the console lines of parse_network_response: one when rows were parsed
ParseOutput(rows, source_info) ==
    IF rows # <<>> THEN <<[parsed |-> Len(rows), from |-> source_info]>> ELSE <<>>

\* update_csv_realtime(new_data, source_info) on an instance of the handler
update_csv_labelled(inst, p, source_info) ==
    LET parsed_rows == LabelledRows(ParsedSample(p), source_info)
        inserted == InsertAll(inst.unique_combinations, parsed_rows)
    IN  [unique_combinations |-> inserted[1],
         csvFile |-> inst.csvFile \o WriteRows(inserted[2]),
         console |-> inst.console \o ParseOutput(parsed_rows, source_info)]

\* RealtimeCSVHandler(): empty ledger, the file holding the header
FreshInstance == [unique_combinations |-> <<>>, csvFile |-> <<HeaderRow>>, console |-> <<>>]

Feeds == UNION {[1..n -> PayloadIds] : n \in 1..MaxFeed}

InitProvenance ==
    /\ IdleLedger /\ IdleThreads /\ IdleWatcher /\ IdleScanner /\ IdleHistory /\ IdleFaults /\ IdleClock /\ IdleCapture
    /\ payload = [resorts |-> <<>>] /\ data_rows = <<>>
    /\ \E feed \in Feeds :
          \E l1, l2 \in [1..Len(feed) -> Labels] :
             arrival = [i \in 1..2 |->
                          [k \in 1..Len(feed) |->
                              [p |-> feed[k], source_info |-> (IF i = 1 THEN l1 ELSE l2)[k]]]]
    /\ snapshots = <<FreshInstance, FreshInstance>>
    /\ phase = 0

\* both runs hand their next payload to update_csv_realtime
IngestNext ==
    /\ phase \in 0..(Len(arrival[1]) - 1)
    /\ phase' = phase + 1
    /\ snapshots' = [i \in 1..2 |->
                        update_csv_labelled(snapshots[i], arrival[i][phase'].p,
                                            arrival[i][phase'].source_info)]
    /\ UNCHANGED <<ledgerVars, pc, frameVars, batches, clockVars, captureVars, watchVars, scanVars, histVars,
                   faultVars, payload, data_rows, arrival>>

\* both runs end with regenerate_sorted_csv()
RegenerateRuns ==
    /\ phase = Len(arrival[1])
    /\ phase' = phase + 1
    /\ snapshots' = [i \in 1..2 |->
                        [snapshots[i] EXCEPT
                            !.csvFile = RegeneratedFile(snapshots[i].unique_combinations)]]
    /\ UNCHANGED <<ledgerVars, pc, frameVars, batches, clockVars, captureVars, watchVars, scanVars, histVars,
                   faultVars, payload, data_rows, arrival>>

NextProvenance == IngestNext \/ RegenerateRuns

SpecProvenance == InitProvenance /\ [][NextProvenance]_vars

\* C24: two runs that ingest the same payloads in the same order under
\* different provenance labels hold identical ledgers and identical output
\* files, after every ingestion and after the final regenerate.
C24_LabelNotPersisted ==
    /\ snapshots[1].unique_combinations = snapshots[2].unique_combinations
    /\ snapshots[1].csvFile = snapshots[2].csvFile

\* the runs are over, every call of one run carried another label than the
\* same call of the other, the labels reached the console, and records were
\* stored
C24_Witness ==
    /\ phase = Len(arrival[1]) + 1
    /\ \A k \in 1..Len(arrival[1]) : arrival[1][k].source_info # arrival[2][k].source_info
    /\ snapshots[1].console # snapshots[2].console
    /\ Len(snapshots[1].unique_combinations) >= 2

-----------------------------------------------------------------------------
(* The availableCount of an emitted record                                  *)

\* C25: the availableCount of every emitted record is the integer its entry's
\* availableCount parses to, whether the entry gave it as a numeric string or
\* as a number (so that "2" and 2 give equal records).
C25_CountIsParsedInteger ==
    phase = "parsed" =>
        \A k \in 1..Len(data_rows) :
            data_rows[k].availableCount = JInt(IntOf(data_rows[k].availableCount).v)

-----------------------------------------------------------------------------
(* The ledger only grows                                                    *)

\* C26: every step leaves each record of the ledger in its place with its
\* value and at most adds records after them: no step of an append, a
\* regenerate, a failed write or a failed parse removes or replaces a record,
\* so the set of identity keys only grows.
C26_LedgerOnlyGrows ==
    [][/\ Len(unique_combinations') >= Len(unique_combinations)
       /\ \A k \in 1..Len(unique_combinations) :
             unique_combinations'[k] = unique_combinations[k]
       /\ {KeyOf(unique_combinations[k]) : k \in 1..Len(unique_combinations)}
             \subseteq {KeyOf(unique_combinations'[k]) : k \in 1..Len(unique_combinations')}]_vars

\* the watcher has shut down after a write of the output file failed, a file
\* whose parse failed was handled, and the ledger holds two records
C26_Witness ==
    /\ pc["main"] = "done"
    /\ write_errors # {}
    /\ 2 \in processed_files
    /\ Len(unique_combinations) >= 2

-----------------------------------------------------------------------------
(* SpecFilter: one file of the watch directory seen by the startup listing  *)
(* and by the event handlers                                                *)

MaxParts == 2

sNetworkResponse == <<110, 101, 116, 119, 111, 114, 107, 45,
                      114, 101, 115, 112, 111, 110, 115, 101>>   \* "network-response"
sTxt == <<46, 116, 120, 116>>                                    \* ".txt"
sSlash == <<47>>                                                 \* "/"
sStar == <<42>>                                                  \* "*"

\* '*network-response*.txt'
GlobPattern == sStar \o sNetworkResponse \o sStar \o sTxt

\* Python's s.endswith(suffix)
EndsWith(s, suffix) ==
    Len(s) >= Len(suffix) /\ SubSeq(s, Len(s) - Len(suffix) + 1, Len(s)) = suffix

\* fnmatch of a name against a pattern of literal characters and `*`
RECURSIVE GlobMatch(_, _)
GlobMatch(pat, s) ==
    IF pat = <<>> THEN s = <<>>
    ELSE IF Head(pat) = 42
         THEN GlobMatch(Tail(pat), s) \/ (s # <<>> /\ GlobMatch(pat, Tail(s)))
         ELSE s # <<>> /\ Head(s) = Head(pat) /\ GlobMatch(Tail(pat), Tail(s))

\* self.watch_dir.glob('*network-response*.txt') lists the file: the pattern
\* is matched against the name of the directory entry
StartupMatches(watch_dir, name) == GlobMatch(GlobPattern, name)

\* event.src_path of a file of the watched directory
SrcPath(watch_dir, name) == watch_dir \o sSlash \o name

\* (mutant) the event test made on os.path.basename(event.src_path)
EventMatches_OnBasename(watch_dir, name) ==
    Contains(name, sNetworkResponse) /\ EndsWith(name, sTxt)

\* `'network-response' in event.src_path and event.src_path.endswith('.txt')`
EventMatches(watch_dir, name) ==
    /\ Contains(SrcPath(watch_dir, name), sNetworkResponse)
    /\ EndsWith(SrcPath(watch_dir, name), sTxt)

\* the pieces file and directory names are put together from:
\* "network-response", ".txt", "a", "response"
NameParts == {sNetworkResponse, sTxt, <<97>>, SubSeq(sNetworkResponse, 9, 16)}

RECURSIVE PartTexts(_)
PartTexts(n) == IF n = 0 THEN {<<>>}
                ELSE PartTexts(n - 1) \cup {t \o w : t \in PartTexts(n - 1), w \in NameParts}

\* file names, and absolute paths of one or two directory levels
FileNames == PartTexts(MaxParts) \ {<<>>}
WatchDirs ==
    {sSlash \o d : d \in FileNames} \cup {sSlash \o <<119>> \o sSlash \o d : d \in FileNames}

InitFilter ==
    /\ IdleLedger /\ IdleThreads /\ IdleWatcher /\ IdleScanner /\ IdleHistory /\ IdleFaults /\ IdleClock /\ IdleCapture
    /\ \E d \in WatchDirs, n \in FileNames : payload = [watch_dir |-> d, name |-> n]
    /\ data_rows = <<>>
    /\ arrival = <<>> /\ snapshots = <<>>
    /\ phase = "input"

\* the file is present at startup in one run and created while watching in
\* another: what each adapter decides
FilterFile ==
    /\ phase = "input"
    /\ data_rows' = [startup |-> StartupMatches(payload.watch_dir, payload.name),
                     event |-> EventMatches(payload.watch_dir, payload.name)]
    /\ phase' = "filtered"
    /\ UNCHANGED <<ledgerVars, pc, frameVars, batches, clockVars, captureVars, watchVars, scanVars, histVars,
                   faultVars, payload, arrival, snapshots>>

NextFilter == FilterFile

SpecFilter == InitFilter /\ [][NextFilter]_vars

\* C27: for every file name and every watch-directory path, the event filter
\* of the watcher picks a file up if and only if the pattern of the startup
\* listing matches it.
C27_AdaptersAcceptSameFiles ==
    phase = "filtered" => data_rows.event = data_rows.startup

\* the two agree whenever the path of the watch directory does not itself
\* contain "network-response"
C27_SameOutsideNamedDirectory ==
    phase = "filtered" /\ ~Contains(payload.watch_dir, sNetworkResponse)
        => data_rows.event = data_rows.startup

-----------------------------------------------------------------------------
(* SpecStats: CSVMonitor.read_csv_stats over an output file                 *)

MaxRows == 2

sPresidential == SubSeq(PresidentialReserve, 1, 12)    \* "Presidential"

\* the data rows the file may hold: offeringId "A1" or "Presidential", label
\* "", "King" or "Presidential", availableCount "2" or "5"
StatsRows ==
    {<<sD1, o, sH1, l, c>> : o \in {sA1, sPresidential},
                             l \in {<<>>, sKing, sPresidential},
                             c \in {sTwo, sFive}}

StatsFiles ==
    {<<HeaderRow>> \o rows : rows \in UNION {[1..n -> StatsRows] : n \in 0..MaxRows}}

\* the loop `for row in reader` from row k on, with the counters so far; int()
\* raising ends the loop through the `except Exception` around it
RECURSIVE ReadRows(_, _, _)
ReadRows(file, k, stats) ==
    IF k > Len(file) THEN stats
    ELSE LET offering_id == file[k][2]
             room_label == file[k][4]
             available == IntOf(JStr(file[k][5]))
             counted == [stats EXCEPT !.total_rows = @ + 1]
         IN  IF ~available.ok THEN counted
             ELSE ReadRows(file, k + 1,
                     IF room_label # <<>>
                        /\ (Contains(room_label, sPresidential)
                            \/ Contains(offering_id, sPresidential))
                     THEN [counted EXCEPT !.presidential_count = @ + 1]
                     ELSE counted)

\* read_csv_stats: csv.DictReader takes the first row as the header
read_csv_stats(file) == ReadRows(file, 2, [total_rows |-> 0, presidential_count |-> 0])

InitStats ==
    /\ IdleLedger /\ IdleThreads /\ IdleWatcher /\ IdleScanner /\ IdleHistory /\ IdleFaults /\ IdleClock /\ IdleCapture
    /\ payload \in StatsFiles
    /\ data_rows = <<>>
    /\ arrival = <<>> /\ snapshots = <<>>
    /\ phase = "input"

ReadStats ==
    /\ phase = "input"
    /\ data_rows' = read_csv_stats(payload)
    /\ phase' = "read"
    /\ UNCHANGED <<ledgerVars, pc, frameVars, batches, clockVars, captureVars, watchVars, scanVars, histVars,
                   faultVars, payload, arrival, snapshots>>

NextStats == ReadStats

SpecStats == InitStats /\ [][NextStats]_vars

\* C28: the Presidential count of the statistics equals the number of data
\* rows of the file whose offeringId or invenOffrngLabel contains
\* "Presidential", also when the label of such a row is empty.
C28_PresidentialCountMatchesRows ==
    phase = "read" =>
        data_rows.presidential_count =
            Cardinality({k \in 2..Len(payload) :
                            \/ Contains(payload[k][2], sPresidential)
                            \/ Contains(payload[k][4], sPresidential)})

-----------------------------------------------------------------------------
(* The output file against the ledger                                       *)

\* the identity key of a row of the file: its first four cells
FileKeyOf(cells) == <<cells[1], cells[2], cells[3], cells[4]>>

-----------------------------------------------------------------------------
(* What an ingestion changes                                                *)

\* C30: a step of an ingestion changes the ledger only by inserting the row
\* at hand when its key is new, and changes the output file only by appending
\* the rows this ingestion inserted; an ingestion that parsed no record, or
\* whose records were all in the ledger already, changes neither and writes
\* nothing.
C30_OnlyNewRecordsAppended ==
    [][\A t \in Producers :
          pc'[t] # pc[t] =>
             /\ unique_combinations' # unique_combinations =>
                   /\ pc[t] = "append_store"
                   /\ ~KeyIn(KeyOf(CurrentRow(t)), unique_combinations)
                   /\ unique_combinations' = Append(unique_combinations, CurrentRow(t))
                   /\ unique_new_rows'[t] = Append(unique_new_rows[t], CurrentRow(t))
             /\ (pc[t] = "append_store" /\ unique_combinations' = unique_combinations) =>
                   unique_new_rows'[t] = unique_new_rows[t]
             /\ csvFile' # csvFile =>
                   /\ pc[t] = "append_write"
                   /\ unique_new_rows[t] # <<>>
                   /\ csvFile' = csvFile \o WriteRows(unique_new_rows[t])
             /\ (pc[t] = "append_write" /\ unique_new_rows[t] = <<>>) => csvFile' = csvFile
             /\ (pc[t] = "idle" /\ ParsedSample(cur_input'[t]) = <<>>) =>
                   pc'[t] = "idle" /\ csvFile' = csvFile]_vars

\* an ingestion whose one record was in the ledger already has gone through
\* its write step: nothing was inserted, and the file has one row per record
C30_Witness ==
    \E t \in Producers :
        /\ pc[t] = "append_unlock"
        /\ new_rows[t] # <<>>
        /\ unique_new_rows[t] = <<>>
        /\ unique_combinations # <<>>
        /\ Len(csvFile) = Len(unique_combinations) + 1

-----------------------------------------------------------------------------
(* What a regenerate changes                                                *)

\* thread t takes the write step of regenerate_sorted_csv
RegenerateWrites(t) == pc[t] = "regen_write" /\ pc'[t] = "regen_unlock"

\* C31: a regenerate leaves the ledger as it is; its write keeps the set and
\* the number of the rows of the file and changes their order only; and when
\* the file already is the regenerated file of the ledger (a regenerate ran and
\* nothing was ingested since) the write leaves the content as it is.
C31_RegenerateReordersOnly ==
    [][\A t \in WatcherThreads :
          /\ (pc[t] \in {"regen_lock", "regen_write", "regen_unlock"} /\ pc'[t] # pc[t])
                => unique_combinations' = unique_combinations
          /\ RegenerateWrites(t) =>
                /\ RowSet(csvFile') = RowSet(csvFile)
                /\ Len(csvFile') = Len(csvFile)
                /\ csvFile = RegeneratedFile(unique_combinations) => csvFile' = csvFile]_vars

\* a regenerate has just rewritten a file of two records whose append order
\* was not the sorted order
C31_Witness ==
    \E t \in WatcherThreads :
        /\ pc[t] = "regen_unlock"
        /\ Len(unique_combinations) = 2
        /\ csvFile = RegeneratedFile(unique_combinations)
        /\ csvFile # <<HeaderRow>> \o WriteRows(unique_combinations)

-----------------------------------------------------------------------------
(* SpecLock: the watcher with a failing output path, its threads scheduled  *)
(* fairly                                                                   *)

\* A thread inside a `with self.lock:` block keeps running until it leaves the
\* block; a thread blocked in the acquire gets the lock when it is given back
\* again and again.
LockFairness ==
    \A t \in WatcherThreads :
        /\ SF_vars(AppendAcquire(t)) /\ SF_vars(RegenAcquire(t))
        /\ WF_vars(AppendCheck(t)) /\ WF_vars(AppendStore(t))
        /\ WF_vars(AppendWrite(t)) /\ WF_vars(AppendRelease(t))
        /\ WF_vars(RegenWrite(t)) /\ WF_vars(RegenRelease(t))

\* the watcher started on a fresh output path; one file at most is still to
\* arrive in the directory
InitLock == Init /\ csvFile = <<>> /\ Cardinality(Files \ dirFiles) <= 1

\* the watcher while files arrive and the output path may stop being writable
NextLock ==
    \/ Construct
    \/ ExistingLoop
    \/ \E f \in Files : CreateFile(f)
    \/ Dispatch
    \/ SettleDelay
    \/ ObserverExit
    \/ PeriodicRegenerate
    \/ Interrupt
    \/ Join
    \/ \E t \in WatcherThreads :
          \/ ProcessFile(t)
          \/ MarkProcessed(t)
          \/ AppendAcquire(t)
          \/ AppendCheck(t)
          \/ AppendStore(t)
          \/ AppendWrite(t)
          \/ AppendRelease(t)
          \/ RegenAcquire(t)
          \/ RegenWrite(t)
          \/ RegenRelease(t)
    \/ PathFails

SpecLock == InitLock /\ [][NextLock]_vars /\ LockFairness

\* C32: a thread that holds the lock gives it back, whether its write of the
\* file succeeds or fails, and a thread that waits for the lock comes to hold
\* it: the notification thread and the main thread never block each other for
\* ever.
C32_LockAlwaysReleased ==
    \A t \in WatcherThreads :
        /\ (lock = t) ~> (lock # t)
        /\ (pc[t] \in {"append_lock", "regen_lock"}) ~> (lock = t)

\* the handler waits for the lock while the main thread, whose regenerate
\* write has failed, still holds it
C32_Witness ==
    /\ pc["observer"] = "append_lock"
    /\ lock = "main"
    /\ pc["main"] = "regen_unlock"
    /\ \E e \in write_errors : e.mode = "regenerate"

-----------------------------------------------------------------------------
(* SpecArrivals: the watcher left running, files written once into the      *)
(* directory, the threads scheduled fairly                                  *)

\* no more files arrive than the event queue of the model can hold
InitArrivals == Init /\ csvFile = <<>> /\ Cardinality(Files \ dirFiles) <= MaxQueue

NextArrivals ==
    \/ Construct
    \/ ExistingLoop
    \/ \E f \in Files : CreateFile(f)
    \/ Dispatch
    \/ SettleDelay
    \/ PeriodicRegenerate
    \/ \E t \in WatcherThreads :
          \/ ProcessFile(t)
          \/ MarkProcessed(t)
          \/ AppendAcquire(t)
          \/ AppendCheck(t)
          \/ AppendStore(t)
          \/ AppendWrite(t)
          \/ AppendRelease(t)
          \/ RegenAcquire(t)
          \/ RegenWrite(t)
          \/ RegenRelease(t)

\* the steps of one thread of the watcher
StepOf(t) ==
    \/ t = "main" /\ (Construct \/ ExistingLoop)
    \/ t = "observer" /\ (Dispatch \/ SettleDelay)
    \/ ProcessFile(t) \/ MarkProcessed(t)
    \/ AppendAcquire(t) \/ AppendCheck(t) \/ AppendStore(t)
    \/ AppendWrite(t) \/ AppendRelease(t)
    \/ RegenAcquire(t) \/ RegenWrite(t) \/ RegenRelease(t)

\* each thread keeps running: the main thread goes through its startup and
\* its regenerates, the notification thread handles the events it is given,
\* and a thread blocked on the lock gets it when it is released again and
\* again
WatcherFairness == \A t \in WatcherThreads : SF_vars(StepOf(t))

SpecArrivals == InitArrivals /\ [][NextArrivals]_vars /\ WatcherFairness

\* the files json.load accepts
JsonFiles == {f \in Files : ~NotJson(f)}

\* C33: every file with decodable JSON that is in the watch directory at some
\* time of the watcher's life is read and handed on in the end (it comes to
\* be in the processed set), also a file created after the startup listing
\* was taken and before the observer started.
C33_EveryFileEventuallyRead ==
    \A f \in JsonFiles : (f \in dirFiles) ~> (f \in processed_files)

\* the same for the files the listing holds or an event was queued for
Announced(f) ==
    \/ pc["main"] = "construct" /\ f \in dirFiles
    \/ \E k \in 1..Len(events) : events[k].src_path = f
C33_AnnouncedFileEventuallyRead ==
    \A f \in JsonFiles : Announced(f) ~> (f \in processed_files)

-----------------------------------------------------------------------------
(* SpecMarks: the watcher while files are written again and the output path *)
(* may stop being writable                                                  *)

NextMarks ==
    \/ NextLock
    \/ \E f \in Files : RecreateFile(f)
    \/ \E f \in Files : ModifyFile(f)

SpecMarks == InitLock /\ [][NextMarks]_vars

\* the notification thread takes from the queue an event for a file that
\* json.load rejects
DispatchesUndecodable ==
    /\ pc["observer"] = "idle"
    /\ events # <<>>
    /\ events' = Tail(events)
    /\ NotJson(Head(events).src_path)

\* C34: a file enters the processed set only through the mark of a thread
\* that has read it and decoded its JSON; a file that cannot be decoded is
\* never in the set, and each create or modify event for it is handled
\* again; the return of an append, also of one whose write failed, goes on
\* to the mark.
C34_ProcessedMeansDecoded ==
    [][/\ \A f \in processed_files' : ~NotJson(f)
       /\ processed_files' # processed_files =>
             \E t \in WatcherThreads :
                /\ pc[t] = "mark_processed"
                /\ ~NotJson(cur_input[t])
                /\ processed_files' = processed_files \cup {cur_input[t]}
       /\ DispatchesUndecodable => pc'["observer"] = "sleep"
       /\ \A t \in WatcherThreads :
             /\ (pc[t] = "append_unlock" /\ pc'[t] # pc[t]) => pc'[t] = "mark_processed"
             /\ (pc[t] = "mark_processed" /\ pc'[t] # pc[t])
                   => cur_input[t] \in processed_files']_vars

\* a file whose append failed is in the processed set, its records missing
\* from the output file, while the handler is at work on a file that cannot
\* be decoded
C34_Witness ==
    /\ pc["observer"] = "sleep"
    /\ NotJson(cur_input["observer"])
    /\ \E f \in processed_files :
          /\ RowSet(ParsedFile(f)) \cap FailedAppendRows # {}
          /\ \E r \in RowSet(ParsedFile(f)) : \A k \in 1..Len(csvFile) : csvFile[k] # WriteRow(r)

-----------------------------------------------------------------------------
(* The batch converter against the watcher                                  *)

\* all_data of process_directory: the rows of the files in sorted order
RECURSIVE CollectedRows(_)
CollectedRows(files) ==
    IF files = <<>> THEN <<>>
    ELSE ConvertedFile(Head(files)) \o CollectedRows(Tail(files))

\* what process_directory writes for a directory holding the files S
process_directory(S) ==
    <<HeaderRow>> \o WriteRows(aggregate_by_date(CollectedRows(SortedFiles(S))))

\* the watcher has gone through its startup scan and a regenerate after it
ScannedAndRegenerated ==
    \/ pc["main"] \in {"stamp", "join", "done"}
    \/ pc["main"] = "regen_unlock"

\* C35: for a directory with at least one matching file, and writes that
\* succeed, the file of the watcher after its startup scan and a regenerate
\* is row for row the file the batch converter writes for that directory.
C35_ConverterEqualsWatcher ==
    (dirFiles # {} /\ ScannedAndRegenerated) => csvFile = process_directory(dirFiles)

\* the watcher has shut down on a directory with two files that carry one
\* identity key under different counts, and a file without resort data
C35_Witness ==
    /\ pc["main"] = "done"
    /\ Files \cup QuietFiles \subseteq dirFiles
    /\ Len(csvFile) = 3

-----------------------------------------------------------------------------
(* SpecShared: the realtime scanner and the file watcher as two processes   *)
(* started with their default paths. Each process has its own handler       *)
(* object, hence its own ledger and its own lock; the output path of both   *)
(* is screens/NewFolder/wyndham_availability_realtime.csv. A lock of one    *)
(* process does not hold back the other, so the steps below are the file    *)
(* operations of either process in any order.                               *)

\* the scanner process and the watcher process, by their main threads
Processes == {"scanner", "main"}

\* the handler object of a process: RealtimeCSVHandler / AvailabilityCSVGenerator
NewHandler == [unique_combinations |-> <<>>]

InitShared ==
    /\ unique_combinations = <<>> /\ csvFile = <<>> /\ lock = NoThread
    /\ IdleThreads /\ IdleWatcher /\ IdleScanner /\ IdleHistory /\ IdleFaults /\ IdleClock /\ IdleCapture
    /\ payload = [resorts |-> <<>>] /\ data_rows = <<>> /\ arrival = <<>>
    /\ snapshots = [i \in Processes |-> NewHandler]
    /\ phase = "off"

\* the constructor of the handler: _initialize_csv opens the path with 'w'
\* and writes the header
StartProcess(i) ==
    /\ pc[i] = "off"
    /\ pc' = [pc EXCEPT ![i] = "run"]
    /\ snapshots' = [snapshots EXCEPT ![i] = NewHandler]
    /\ csvFile' = <<HeaderRow>>
    /\ UNCHANGED <<unique_combinations, lock, frameVars, batches, clockVars, captureVars, watchVars,
                   scanVars, histVars, faultVars, payload, data_rows, arrival, phase>>

\* update_csv_realtime of the scanner / _process_file and _append_to_csv of
\* the watcher for payload p: the rows new to the ledger of the process are
\* stored there and appended to the file opened with 'a'
IngestShared(i, p) ==
    /\ pc[i] = "run"
    /\ batches[i] < MaxBatches
    /\ batches' = [batches EXCEPT ![i] = @ + 1]
    /\ LET inserted == InsertAll(snapshots[i].unique_combinations, ParsedSample(p))
       IN  /\ snapshots' = [snapshots EXCEPT ![i].unique_combinations = inserted[1]]
           /\ csvFile' = csvFile \o WriteRows(inserted[2])
    /\ UNCHANGED <<unique_combinations, lock, pc, frameVars, clockVars, captureVars, watchVars,
                   scanVars, histVars, faultVars, payload, data_rows, arrival, phase>>

\* regenerate_sorted_csv of process i: the path is opened with 'w' and gets
\* the header and the sorted ledger of that process. A periodic regenerate
\* lets the process run on (the watcher only), the final one ends it.
RegenerateShared(i, final) ==
    /\ pc[i] = "run"
    /\ final \/ i = "main"
    /\ pc' = [pc EXCEPT ![i] = IF final THEN "done" ELSE "run"]
    /\ csvFile' = RegeneratedFile(snapshots[i].unique_combinations)
    /\ UNCHANGED <<unique_combinations, lock, frameVars, batches, clockVars, captureVars, watchVars,
                   scanVars, harnessVars, histVars, faultVars>>

NextShared ==
    \E i \in Processes :
        \/ StartProcess(i)
        \/ \E p \in PayloadIds : IngestShared(i, p)
        \/ \E final \in BOOLEAN : RegenerateShared(i, final)

SpecShared == InitShared /\ [][NextShared]_vars

\* the identity keys of the data rows of the file
FileKeys == {<<csvFile[k][1], csvFile[k][2], csvFile[k][3], csvFile[k][4]>> : k \in 2..Len(csvFile)}

\* the file starts with the header and holds it nowhere else
SharedOneHeader ==
    csvFile # <<>> => /\ csvFile[1] = HeaderRow
                      /\ \A k \in 2..Len(csvFile) : csvFile[k] # HeaderRow

\* no identity key is carried by two rows of the file
SharedKeysUnique == \A key \in FileKeys : Cardinality(FileRowsOf(key)) <= 1

\* every record a process holds in its ledger, and so has written, is a row
\* of the file
SharedNoRowLost ==
    \A i \in Processes :
        \A k \in 1..Len(snapshots[i].unique_combinations) :
            \E j \in 2..Len(csvFile) :
                <<csvFile[j]>> = WriteRows(<<snapshots[i].unique_combinations[k]>>)

\* C36: with the scanner and the watcher running at the same time on the
\* default output path, the file has exactly one header, at most one row per
\* identity key, and every row either of them has written.
C36_SharedFileConsistent ==
    /\ SharedOneHeader
    /\ SharedKeysUnique
    /\ SharedNoRowLost

\* C36 (part): the file has exactly one header, in its first line
C36_OneHeader == SharedOneHeader

\* C36 (part): at most one row per identity key
C36_AtMostOneRowPerKey == SharedKeysUnique

\* C36 (part): no row written by one process is lost through the other
C36_NoRowLost == SharedNoRowLost

-----------------------------------------------------------------------------
(* SpecCapture: NetworkCaptureWithCSV.get_availability_response over the    *)
(* performance logs of two requests                                         *)

\* a log holds at most MaxLog entries
MaxLog == 5
\* the timestamps of the responses are 1..MaxStamp
MaxStamp == 2

RequestIds == {"A", "B"}

sRequestWillBeSent == "Network.requestWillBeSent"
sResponseReceived == "Network.responseReceived"
sLoadingFinished == "Network.loadingFinished"
Methods == <<sRequestWillBeSent, sResponseReceived, sLoadingFinished>>

\* the URL of a request holds 'availability-search' or it does not
sAvailabilitySearch == "availability-search"
Urls == {sAvailabilitySearch, "other"}

\* Network.getResponseBody: a JSON body, a body that is not JSON, or the
\* command raises because the body is not there
BodyKinds == {"json", "text", "raises"}

\* the JSON body of a request, as a sample payload
BodyOf(r) == IF r = "A" THEN 1 ELSE 2

\* The browser logs the events of one request in the order requestWillBeSent,
\* responseReceived, loadingFinished, each once; the events of two requests
\* interleave in every way, and the log is read at any moment.
HasEvent(l, m, r) == \E k \in 1..Len(l) : l[k] = <<m, r>>
NextEvents(l) ==
    {e \in {<<j, r>> : j \in 1..3, r \in RequestIds} :
        /\ ~HasEvent(l, Methods[e[1]], e[2])
        /\ e[1] > 1 => HasEvent(l, Methods[e[1] - 1], e[2])}
RECURSIVE EventOrders(_)
EventOrders(n) ==
    IF n = 0 THEN {<<>>}
    ELSE LET shorter == EventOrders(n - 1)
         IN  shorter \cup UNION {{Append(l, <<Methods[e[1]], e[2]>>) : e \in NextEvents(l)} :
                                     l \in shorter}

\* the value of availability_data: None, the decoded body of a request, or
\* {'raw_response': body_text} of a request
None == [kind |-> "None", requestId |-> ""]
Decoded(r) == [kind |-> "json", requestId |-> r]
RawResponse(r) == [kind |-> "raw_response", requestId |-> r]
NotReturned == [kind |-> "pending", requestId |-> ""]

\* csv_handler = RealtimeCSVHandler(...) has run; the call has not started
InitCapture ==
    /\ unique_combinations = <<>> /\ csvFile = <<HeaderRow>> /\ lock = NoThread
    /\ IdleThreads /\ IdleWatcher /\ IdleScanner /\ IdleHarness /\ IdleHistory
    /\ IdleFaults /\ IdleClock
    /\ \E order \in EventOrders(MaxLog) :
       \E url \in [RequestIds -> Urls] :
       \E timestamp \in [RequestIds -> 1..MaxStamp] :
          logs = [k \in 1..Len(order) |->
                    [method |-> order[k][1], requestId |-> order[k][2],
                     url |-> url[order[k][2]], timestamp |-> timestamp[order[k][2]]]]
    /\ response_bodies \in [RequestIds -> BodyKinds]
    /\ log_pos = 0
    /\ availability_data = NotReturned
    /\ latest_timestamp = 0
    /\ result = NotReturned

\* self.csv_handler.update_csv_realtime(availability_data, source_info): the
\* rows new to the ledger are stored and appended to the file
CaptureUpdatesCsv(r) ==
    LET inserted == InsertAll(unique_combinations, ParsedSample(BodyOf(r)))
    IN  /\ unique_combinations' = inserted[1]
        /\ csvFile' = csvFile \o WriteRows(inserted[2])

\* logs = self.driver.get_log('performance'); availability_data = None;
\* latest_timestamp = 0
GetLog ==
    /\ log_pos = 0 /\ result = NotReturned
    /\ log_pos' = 1
    /\ availability_data' = None
    /\ latest_timestamp' = 0
    /\ UNCHANGED <<ledgerVars, pc, frameVars, batches, clockVars, watchVars, scanVars,
                   harnessVars, histVars, faultVars, logs, response_bodies, result>>

\* the entry the loop is at
AtEntry(method) ==
    /\ log_pos \in 1..Len(logs)
    /\ logs[log_pos].method = method

\* loop body, `if 'Network.responseReceived' in ...` branch
ResponseReceived ==
    /\ AtEntry(sResponseReceived)
    /\ log_pos' = log_pos + 1
    /\ LET log == logs[log_pos]
           request_id == log.requestId
       IN  IF /\ log.url = sAvailabilitySearch
              /\ log.timestamp > latest_timestamp
              /\ response_bodies[request_id] # "raises"
           THEN /\ latest_timestamp' = log.timestamp
                /\ IF response_bodies[request_id] = "json"
                   THEN /\ availability_data' = Decoded(request_id)
                        /\ CaptureUpdatesCsv(request_id)
                   ELSE /\ availability_data' = RawResponse(request_id)
                        /\ UNCHANGED <<unique_combinations, csvFile>>
           ELSE UNCHANGED <<availability_data, latest_timestamp, unique_combinations, csvFile>>
    /\ UNCHANGED <<lock, pc, frameVars, batches, clockVars, watchVars, scanVars,
                   harnessVars, histVars, faultVars, logs, response_bodies, result>>

\* the first requestWillBeSent entry of the log for the request, if there is one
RequestWillBeSent(request_id) ==
    LET found == {k \in 1..Len(logs) : /\ logs[k].method = sRequestWillBeSent
                                       /\ logs[k].requestId = request_id}
    IN  IF found = {} THEN None
        ELSE logs[CHOOSE k \in found : \A j \in found : k <= j]

\* loop body, `elif 'Network.loadingFinished' in ...` branch
LoadingFinished ==
    /\ AtEntry(sLoadingFinished)
    /\ log_pos' = log_pos + 1
    /\ LET request_id == logs[log_pos].requestId
           request_will_be_sent == RequestWillBeSent(request_id)
       IN  IF /\ request_will_be_sent # None
              /\ request_will_be_sent.url = sAvailabilitySearch
              /\ response_bodies[request_id] = "json"
           THEN /\ availability_data' = Decoded(request_id)
                /\ CaptureUpdatesCsv(request_id)
           ELSE UNCHANGED <<availability_data, unique_combinations, csvFile>>
    /\ UNCHANGED <<lock, pc, frameVars, batches, clockVars, watchVars, scanVars,
                   harnessVars, histVars, faultVars, logs, response_bodies,
                   latest_timestamp, result>>

\* loop body for an entry of another method: neither branch is taken
OtherEntry ==
    /\ AtEntry(sRequestWillBeSent)
    /\ log_pos' = log_pos + 1
    /\ UNCHANGED <<ledgerVars, pc, frameVars, batches, clockVars, watchVars, scanVars,
                   harnessVars, histVars, faultVars, logs, response_bodies,
                   availability_data, latest_timestamp, result>>

\* return availability_data
ReturnData ==
    /\ log_pos = Len(logs) + 1
    /\ result = NotReturned
    /\ result' = availability_data
    /\ UNCHANGED <<ledgerVars, pc, frameVars, batches, clockVars, watchVars, scanVars,
                   harnessVars, histVars, faultVars, logs, response_bodies, log_pos,
                   availability_data, latest_timestamp>>

NextCapture ==
    \/ GetLog
    \/ ResponseReceived
    \/ LoadingFinished
    \/ OtherEntry
    \/ ReturnData

SpecCapture == InitCapture /\ [][NextCapture]_vars

\* the availability-search responses of the log
SearchResponses ==
    {k \in 1..Len(logs) : /\ logs[k].method = sResponseReceived
                          /\ logs[k].url = sAvailabilitySearch}

\* the requests whose response carries the greatest timestamp
LatestResponses ==
    {logs[k].requestId : k \in {i \in SearchResponses :
                                  \A j \in SearchResponses : logs[j].timestamp <= logs[i].timestamp}}

\* the body of every availability-search response can be fetched
BodiesThere == \A k \in SearchResponses : response_bodies[logs[k].requestId] # "raises"

\* C37: the call returns the availability-search response with the greatest
\* timestamp among those of the log, whatever the order of the
\* responseReceived and loadingFinished entries, and None when the log
\* holds no availability-search response.
C37_ReturnsLatestResponse ==
    (result # NotReturned /\ BodiesThere) =>
        IF SearchResponses = {} THEN result = None
        ELSE result.requestId \in LatestResponses

\* C37 (part): None is returned when the log holds no availability-search
\* response
C37_NoneWithoutResponse ==
    (result # NotReturned /\ SearchResponses = {}) => result = None

\* C37 (part): when no loadingFinished entry of an availability-search
\* request is in the log, the response of the greatest timestamp is returned
C37_LatestAmongResponseReceived ==
    (/\ result # NotReturned /\ BodiesThere /\ SearchResponses # {}
     /\ \A k \in 1..Len(logs) :
           logs[k].method = sLoadingFinished => logs[k].url # sAvailabilitySearch)
        => result.requestId \in LatestResponses

\* the log as the browser writes it: responses stamped in the order of their
\* responseReceived entries, every body JSON
LogInTimeOrder ==
    /\ \A r \in RequestIds : response_bodies[r] = "json"
    /\ \A i, j \in SearchResponses : i < j => logs[i].timestamp < logs[j].timestamp

\* C37 (part): for logs whose responses are stamped in log order and whose
\* bodies are JSON, the response of the greatest timestamp is returned
C37_LatestInTimeOrder ==
    (result # NotReturned /\ LogInTimeOrder /\ SearchResponses # {})
        => result.requestId \in LatestResponses

====
